---- MODULE Spec2Model ----
(***************************************************************************)
(* Verification model of the ProfMatch matching pipeline                   *)
(* (app/services/orchestrator.py, app/routes/match.py,                     *)
(* app/services/redis.py).                                                 *)
(*                                                                         *)
(* Specifications in this module:                                          *)
(*   SpecRank   generate_matches applied to bounded oracle responses       *)
(*   Spec       one session: start_match, the background run, pollers      *)
(*   SpecEnrich enrich_professors fan-out, one task per candidate          *)
(*   SpecAdmit  enrich_professors admission, counter abstraction           *)
(*   SpecAdmitLive  SpecAdmit with the scheduling of the event loop        *)
(*   SpecFilter, SpecScholar, SpecCache, SpecTools, SpecDiscover,          *)
(*   SpecFetch, SpecPost, SpecSingle, SpecKeywords, SpecFanOut             *)
(*              the stages of the run, each on bounded inputs              *)
(*   SpecStore, SpecStoreConcurrent  app/services/redis.py                 *)
(*   SpecUpload upload_file, one request after the other                   *)
(*   SpecSession  concurrent requests and runs on one session              *)
(***************************************************************************)
EXTENDS Integers, Sequences, FiniteSets, TLC

VARIABLES
    \* ---- generate_matches (SpecRank) ----
    professors,     \* input list of ProfessorProfile
    response,       \* what generate_text produced: [fails, text, payload]
    rankOut,        \* outcome of generate_matches: [called, exc, value]
    \* ---- session store, start_match, run_matching_task, poller (Spec) ----
    store,          \* the stored session document, or NoSession
    req,            \* the start_match handler: [pc, local]
    run,            \* the background task run_matching_task
    polled,         \* last answer of get_match_status
    fetched,        \* last answer of get_match_results
    \* ---- enrich_professors (SpecEnrich, SpecAdmit) ----
    faculty_data,   \* input list of candidates
    task,           \* SpecEnrich: per candidate, the position of its task
    crowd,          \* SpecAdmit: number of tasks at each position
    semValue,       \* free slots of asyncio.Semaphore(20)
    enrichOut,      \* outcome of enrich_professors: [done, raised, value]
    \* ---- filter_faculty_by_relevance (SpecFilter) ----
    filterOut,      \* outcome of the filter: [called, asked, exc, value]
    \* ---- enrich_single_professor, disambiguation (SpecScholar) ----
    candidates,     \* result of scholar_client.search_scholar(name)
    domain_keywords,\* keywords derived from the university's host
    scholarOut,     \* [called, scholar, branch]
    \* ---- professor cache, app/services/cache.py (SpecCache) ----
    cache,          \* rows of table professor_cache
    now,            \* datetime.utcnow(), in days
    writer,         \* per caller of cache_professor: its position and locals
    writes,         \* number of cache_professor calls started
    committed,      \* per key, the write whose commit came last (0: none)
    lookup,         \* last result of get_cached_professor
    \* ---- tool gateway and oracle (SpecTools) ----
    toolCall,       \* [op, outcome]: the operation and what the transport does
    toolOut,        \* what the pipeline gets: [called, exc, value]
    \* ---- discover_faculty_url (SpecDiscover), fetch_faculty (SpecFetch) ----
    discIn,         \* [university, interest, urls]: arguments and search result
    discOut,        \* outcome of discover_faculty_url
    fetchIn,        \* [university, research_interests]
    fetch,          \* fetch_faculty: [pc, branches, search_pairs, results, ...]
    \* ---- enrich_matches_with_google_scholar (SpecPost) ----
    matched,        \* the list of MatchResult; professor is an object reference
    profObj,        \* the ProfessorProfile objects, by reference
    postTask,       \* per match, the position of enrich_one_match
    postOut,        \* outcome of the stage: [done, exc]
    \* ---- app/services/redis.py (SpecStore) ----
    redis_client,   \* module global: NoClient or the client from_url built
    use_memory_store, \* module global
    memory_store,   \* module global, at key session:<id>: the JSON text or Absent
    redisDb,        \* the Redis server, at key session:<id>: the JSON text or Absent
    storeCall,      \* per caller: the call in flight or last finished
    storeLog,       \* history: [expected, expired, attempts, shut]
    \* ---- upload_file, app/routes/upload.py (SpecUpload) ----
    upl,            \* per request: the upload handler's position and locals
    blobs,          \* file ids stored in the bucket, in order of storage
    uploaded,       \* history: the file ids answered with 200, in order
    \* ---- enrich_single_professor in detail (SpecSingle) ----
    single,         \* per task: the locals of enrich_single_professor
    calls,          \* history: the calls each task made, as <<task, callee>>
    \* ---- domain keywords of enrich_professors (SpecKeywords) ----
    kwIn,           \* the university argument
    kwOut,          \* [called, domain, value]: the keywords derived
    \* ---- completion order of the fan-outs (SpecFanOut) ----
    fanIn,          \* the fixed answers of the tools, per call
    fan,            \* [stage, finished, ...]: the three gathers in turn
    \* ---- concurrent requests on one session (SpecSession) ----
    starts,         \* per start_match request: [pc, local, code]
    runs,           \* per background run: [pc, stage, local]
    gone,           \* the DELETE request: [pc, code]
    served,         \* last answer of get_match_results: [match_id, code, results]
    sessLog         \* [load, reset]: the requests the clients send, and the
                    \* start_match whose write came last

rankVars == <<professors, response, rankOut>>
pipeVars == <<store, req, run, polled, fetched>>
enrichVars == <<faculty_data, task, crowd, semValue, enrichOut>>
filterVars == <<filterOut>>
scholarVars == <<candidates, domain_keywords, scholarOut>>
cacheVars == <<cache, now, writer, writes, committed, lookup>>
toolVars == <<toolCall, toolOut>>
discVars == <<discIn, discOut, fetchIn, fetch>>
postVars == <<matched, profObj, postTask, postOut>>
storeVars == <<redis_client, use_memory_store, memory_store, redisDb, storeCall,
               storeLog>>
uploadVars == <<upl, blobs, uploaded>>
singleVars == <<single, calls>>
kwVars == <<kwIn, kwOut>>
fanVars == <<fanIn, fan>>
sessVars == <<starts, runs, gone, served, sessLog>>
lateVars == <<fanVars, sessVars>>
extraVars == <<storeVars, uploadVars, singleVars, kwVars, lateVars>>
stageVars == <<filterVars, scholarVars, cacheVars, toolVars, discVars, postVars,
               extraVars>>
vars == <<professors, response, rankOut, store, req, run, polled, fetched,
          faculty_data, task, crowd, semValue, enrichOut, stageVars>>

(***************************************************************************)
(* Generic helpers                                                         *)
(***************************************************************************)
Range(s) == {s[i] : i \in 1..Len(s)}

Min(a, b) == IF a <= b THEN a ELSE b

Take(s, n) == SubSeq(s, 1, Min(n, Len(s)))

Repeat(x, n) == [i \in 1..n |-> x]

\* All sequences over S of length 0..n
SeqsUpTo(S, n) == UNION {[1..k -> S] : k \in 0..n}

\* Python: needle in hay, for two str values (substring test)
StrContains(hay, needle) ==
    \E i \in 0..(Len(hay) - Len(needle)) :
        SubSeq(hay, i + 1, i + Len(needle)) = needle

(***************************************************************************)
(* Oracle text.  A response text is a sequence of tokens:                  *)
(*   "["  "]"   bracket characters                                        *)
(*   "w"        any run of other characters that is not JSON               *)
(*   "e"        the comma-separated JSON elements carried in `payload`     *)
(***************************************************************************)
Tokens == {"[", "]", "w", "e"}

NoMatch == [found |-> FALSE, sub |-> <<>>]

\* re.search(r"\[.*\]", response, re.DOTALL): leftmost "[", then greedy up to
\* the last "]" after it.
RegexSearchArray(text) ==
    LET opens == {i \in 1..Len(text) : text[i] = "["}
    IN  IF opens = {} THEN NoMatch
        ELSE LET i == CHOOSE x \in opens : \A y \in opens : x <= y
                 closes == {j \in (i + 1)..Len(text) : text[j] = "]"}
             IN  IF closes = {} THEN NoMatch
                 ELSE LET j == CHOOSE x \in closes : \A y \in closes : x >= y
                      IN  [found |-> TRUE, sub |-> SubSeq(text, i, j)]

\* Index of the "]" matching the "[" at position i (0 when there is none).
RECURSIVE MatchClose(_, _, _)
MatchClose(toks, i, depth) ==
    IF i > Len(toks) THEN 0
    ELSE IF toks[i] = "[" THEN MatchClose(toks, i + 1, depth + 1)
    ELSE IF toks[i] = "]" THEN
        IF depth = 1 THEN i ELSE MatchClose(toks, i + 1, depth - 1)
    ELSE MatchClose(toks, i + 1, depth)

JsonError == [ok |-> FALSE, value |-> <<>>]
NestedList == [obj |-> FALSE, kind |-> "list"]

\* The elements of a JSON array body: "e" splices the payload's elements, a
\* nested balanced array is one element of type list, anything else is not JSON.
RECURSIVE JsonElements(_, _)
JsonElements(toks, payload) ==
    IF toks = <<>> THEN [ok |-> TRUE, value |-> <<>>]
    ELSE IF toks[1] = "e" THEN
        LET rest == JsonElements(Tail(toks), payload)
        IN  IF ~rest.ok THEN JsonError
            ELSE [ok |-> TRUE, value |-> payload \o rest.value]
    ELSE IF toks[1] = "[" THEN
        LET c == MatchClose(toks, 1, 0)
        IN  IF c = 0 THEN JsonError
            ELSE LET inner == JsonElements(SubSeq(toks, 2, c - 1), payload)
                     rest == JsonElements(SubSeq(toks, c + 1, Len(toks)), payload)
                 IN  IF ~inner.ok \/ ~rest.ok THEN JsonError
                     ELSE [ok |-> TRUE, value |-> <<NestedList>> \o rest.value]
    ELSE JsonError

\* json.loads of a regex match (which starts with "[" and ends with "]").
JsonLoads(sub, payload) ==
    IF MatchClose(sub, 1, 0) # Len(sub) THEN JsonError
    ELSE JsonElements(SubSeq(sub, 2, Len(sub) - 1), payload)

(***************************************************************************)
(* Data of the ranking stage                                               *)
(***************************************************************************)
\* Publication titles are str values, modelled as sequences of characters.
TitleAB == <<"a", "b">>
TitleA == <<"a">>
TitleB == <<"b">>

\* ProfessorProfile: the fields generate_matches reads.
ProfA == [id |-> "pA", publications |-> <<TitleAB, TitleA>>]
ProfB == [id |-> "pB", publications |-> <<>>]

\* Lists of distinct profiles (ids are fresh uuid4 values or cache keys).
ProfessorLists == {<<>>, <<ProfA>>, <<ProfB>>, <<ProfA, ProfB>>, <<ProfB, ProfA>>}

\* JSON values found in an entry of the oracle's array.
Missing == [t |-> "missing"]
JStr(v) == [t |-> "str", v |-> v]
JNum(v) == [t |-> "num", v |-> v]
JNumStr(v) == [t |-> "numstr", v |-> v]
JWord == [t |-> "word"]
JNull == [t |-> "null"]
JList(v) == [t |-> "list", v |-> v]

Entry(pid, score, titles, typed) ==
    [obj |-> TRUE, professor_id |-> pid, match_score |-> score,
     relevant_publication_titles |-> titles, typed |-> typed]

Scalar == [obj |-> FALSE, kind |-> "number"]

WellFormedEntries ==
    {Entry(JStr(p), JNum(s), JList(<<TitleAB>>), TRUE) :
        p \in {"pA", "pB", "pZ"}, s \in {50, 90}}

MalformedEntries ==
    { Entry(JStr("pA"), JNum(50), JStr(TitleAB), TRUE),   \* titles is a str
      Entry(JStr("pA"), JNum(50), JNum(7), TRUE),         \* titles is a number
      Entry(JStr("pB"), JNum(50), JNum(7), TRUE),
      Entry(JStr("pA"), JWord, Missing, TRUE),            \* "match_score": "high"
      Entry(JStr("pA"), JNull, Missing, TRUE),            \* "match_score": null
      Entry(JStr("pA"), Missing, JList(<<TitleA>>), TRUE),
      Entry(JStr("pA"), JNumStr(90), Missing, TRUE),      \* "match_score": "90"
      Entry(JStr("pA"), JNum(50), Missing, FALSE),        \* alignment_reasons: str
      Entry(Missing, JNum(90), Missing, TRUE),
      Entry(JList(<<>>), JNum(90), Missing, TRUE),        \* professor_id is a list
      Scalar }

EntrySet == WellFormedEntries \cup MalformedEntries

(***************************************************************************)
(* generate_matches                                                        *)
(***************************************************************************)
MaxResults == 10

NoExc == "none"
Returned(v) == [called |-> TRUE, exc |-> NoExc, value |-> v]
Raised(e) == [called |-> TRUE, exc |-> e, value |-> <<>>]

\* except (json.JSONDecodeError, KeyError, TypeError)
CaughtByGenerateMatches == {"JSONDecodeError", "KeyError", "TypeError"}

\* prof_map.get(m.get("professor_id")): the profile with that id, if any
ProfMapGet(profs, pid) ==
    LET hits == {i \in 1..Len(profs) : pid.t = "str" /\ profs[i].id = pid.v}
    IN  IF hits = {} THEN [found |-> FALSE, exc |-> NoExc]
        ELSE [found |-> TRUE, exc |-> NoExc,
              prof |-> profs[CHOOSE i \in hits : \A j \in hits : i >= j]]

\* p.title in m.get("relevant_publication_titles", [])
TitleIn(title, titles) ==
    CASE titles.t = "list" -> title \in Range(titles.v)
      [] titles.t = "str" -> StrContains(titles.v, title)
      [] OTHER -> FALSE

\* [p for p in prof.publications if p.title in m.get(..., [])]
RelevantPubs(prof, titles) ==
    IF prof.publications # <<>> /\ titles.t \in {"num", "null"}
    THEN [exc |-> "TypeError", value |-> <<>>]
    ELSE [exc |-> NoExc,
          value |-> SelectSeq(prof.publications, LAMBDA t : TitleIn(t, titles))]

\* float(m.get("match_score", 0))
FloatOf(score) ==
    CASE score.t = "missing" -> [exc |-> NoExc, value |-> 0]
      [] score.t \in {"num", "numstr"} -> [exc |-> NoExc, value |-> score.v]
      [] score.t = "word" -> [exc |-> "ValueError", value |-> 0]
      [] OTHER -> [exc |-> "TypeError", value |-> 0]

\* One iteration of `for m in matches_data[:10]`: the exception it raises, or
\* the MatchResult it appends (skip = TRUE for `continue`).
MatchEntry(profs, m) ==
    IF ~m.obj THEN [exc |-> "AttributeError", skip |-> TRUE]
    ELSE IF m.professor_id.t = "list" THEN [exc |-> "TypeError", skip |-> TRUE]
    ELSE LET got == ProfMapGet(profs, m.professor_id)
         IN  IF ~got.found THEN [exc |-> NoExc, skip |-> TRUE]
             ELSE LET pubs == RelevantPubs(got.prof, m.relevant_publication_titles)
                      score == FloatOf(m.match_score)
                  IN  IF pubs.exc # NoExc THEN [exc |-> pubs.exc, skip |-> TRUE]
                      ELSE IF score.exc # NoExc
                          THEN [exc |-> score.exc, skip |-> TRUE]
                      ELSE IF ~m.typed
                          THEN [exc |-> "ValidationError", skip |-> TRUE]
                      ELSE [exc |-> NoExc, skip |-> FALSE,
                            result |-> [professor |-> got.prof,
                                        match_score |-> score.value,
                                        relevant_publications |-> pubs.value]]

RECURSIVE MatchLoop(_, _, _)
MatchLoop(profs, items, matches) ==
    IF items = <<>> THEN [exc |-> NoExc, value |-> matches]
    ELSE LET step == MatchEntry(profs, Head(items))
         IN  IF step.exc # NoExc THEN [exc |-> step.exc, value |-> <<>>]
             ELSE MatchLoop(profs, Tail(items),
                            IF step.skip THEN matches
                            ELSE Append(matches, step.result))

\* (mutant) a descending sort that is not stable: x goes before its ties.
InsertDescBeforeTies(sorted, x) ==
    LET k == Cardinality({i \in 1..Len(sorted) :
                             sorted[i].match_score > x.match_score})
    IN  SubSeq(sorted, 1, k) \o <<x>> \o SubSeq(sorted, k + 1, Len(sorted))

\* Position at which x enters a list already sorted by descending score:
\* after every element whose score is >= x's (so ties keep their order).
InsertDesc(sorted, x) ==
    LET k == Cardinality({i \in 1..Len(sorted) :
                             sorted[i].match_score >= x.match_score})
    IN  SubSeq(sorted, 1, k) \o <<x>> \o SubSeq(sorted, k + 1, Len(sorted))

\* sorted(matches, key=lambda x: x.match_score, reverse=True)
RECURSIVE SortedByScore(_)
SortedByScore(matches) ==
    IF matches = <<>> THEN <<>>
    ELSE InsertDesc(SortedByScore(SubSeq(matches, 1, Len(matches) - 1)),
                    matches[Len(matches)])

\* (mutant) a missing array treated as an error
NoArrayRaises == Raised("ValueError")

\* if not json_match: return []
NoArrayResult == Returned(<<>>)

generate_matches(profs, resp) ==
    IF profs = <<>> THEN Returned(<<>>)
    ELSE IF resp.fails THEN Raised("OracleError")
    ELSE LET json_match == RegexSearchArray(resp.text)
         IN  IF ~json_match.found THEN NoArrayResult
             ELSE LET matches_data == JsonLoads(json_match.sub, resp.payload)
                  IN  IF ~matches_data.ok THEN Returned(<<>>)
                      ELSE LET loop == MatchLoop(profs,
                                           Take(matches_data.value, MaxResults),
                                           <<>>)
                           IN  IF loop.exc = NoExc
                                   THEN Returned(SortedByScore(loop.value))
                               ELSE IF loop.exc \in CaughtByGenerateMatches
                                   THEN Returned(<<>>)
                               ELSE Raised(loop.exc)

(***************************************************************************)
(* SpecRank: generate_matches on bounded inputs                            *)
(***************************************************************************)
MaxCore == 2        \* free entries at the end of a payload
MaxTextLen == 4     \* tokens of a free-form response text

CleanText == <<"[", "e", "]">>
Filler == Entry(JStr("pA"), JNum(50), JList(<<TitleAB>>), TRUE)

\* Payloads: 0 or MaxResults-1 filler entries, then up to MaxCore entries.
Payloads ==
    {Repeat(Filler, n) \o core :
        n \in {0, MaxResults - 1}, core \in SeqsUpTo(EntrySet, MaxCore)}

SamplePayload == <<Entry(JStr("pA"), JNum(50), JList(<<TitleAB>>), TRUE),
                   Entry(JStr("pB"), JNum(90), JList(<<TitleAB>>), TRUE)>>

RankResponses ==
    {[fails |-> FALSE, text |-> CleanText, payload |-> p] : p \in Payloads}
    \cup {[fails |-> FALSE, text |-> t, payload |-> SamplePayload] :
            t \in SeqsUpTo(Tokens, MaxTextLen)}
    \cup {[fails |-> TRUE, text |-> <<>>, payload |-> <<>>]}

NotCalled == [called |-> FALSE, exc |-> NoExc, value |-> <<>>]

NoSession == [exists |-> FALSE]
IdleReq == [pc |-> "idle", code |-> 0, match_id |-> 0, file_ids |-> <<>>,
            local |-> NoSession]
IdleRun == [pc |-> "idle", stage |-> 0, local |-> NoSession, file_ids |-> <<>>,
            raised |-> FALSE, exc |-> <<>>, matches |-> <<>>]
NoAnswer == [code |-> 0]

PipelineUnused ==
    /\ store = NoSession /\ req = IdleReq /\ run = IdleRun
    /\ polled = NoAnswer /\ fetched = NoAnswer

SemaphoreLimit == 20

NoCrowd == [created |-> 0, waiting |-> 0, cache_get |-> 0, tools |-> 0,
            cache_put |-> 0, finished |-> 0]
EnrichNotStarted == [done |-> FALSE, raised |-> FALSE, value |-> <<>>]

EnrichUnused ==
    /\ faculty_data = <<>> /\ task = <<>> /\ crowd = NoCrowd
    /\ semValue = SemaphoreLimit /\ enrichOut = EnrichNotStarted

FilterNotCalled == [called |-> FALSE, asked |-> FALSE, exc |-> NoExc, value |-> <<>>]

NoScholar == [found |-> FALSE, author_id |-> 0, affiliations |-> [t |-> "null"]]
ScholarNotCalled == [called |-> FALSE, scholar |-> NoScholar, branch |-> "none"]

ScholarUnused ==
    /\ candidates = <<>> /\ domain_keywords = <<>> /\ scholarOut = ScholarNotCalled

Writers == {1, 2}
CacheKeys == {<<"ann", "mit.edu">>, <<"bob", "mit.edu">>}
NoRow == [id |-> 0, key |-> <<>>, data |-> 0, updated_at |-> 0]
IdleWriter == [pc |-> "idle", key |-> <<>>, n |-> 0, existing |-> 0, stamp |-> 0,
               exc |-> NoExc]
NoLookup == [seq |-> 0, key |-> <<>>, exc |-> NoExc, found |-> FALSE, row |-> NoRow]

CacheUnused ==
    /\ cache = {} /\ now = 0 /\ writer = [w \in Writers |-> IdleWriter]
    /\ writes = 0 /\ committed = [k \in CacheKeys |-> 0] /\ lookup = NoLookup

NoToolCall == [op |-> "none", outcome |-> "none"]
ToolNotCalled == [called |-> FALSE, exc |-> NoExc, value |-> "none"]

ToolsUnused == toolCall = NoToolCall /\ toolOut = ToolNotCalled

NoQuery == [topic |-> "", domain |-> <<>>]
DiscoverNotCalled == [called |-> FALSE, exc |-> NoExc, searched |-> FALSE,
                      query |-> NoQuery, value |-> <<>>]
NoDiscoverCall == [university |-> <<>>, interest |-> "", urls |-> <<>>]
NoFetchCall == [university |-> <<>>, research_interests |-> <<>>]
FetchNotStarted == [pc |-> "idle", branches |-> <<>>, search_pairs |-> <<>>,
                    results |-> <<>>, all_faculty |-> <<>>, exc |-> NoExc,
                    value |-> <<>>]

DiscoveryUnused ==
    /\ discIn = NoDiscoverCall /\ discOut = DiscoverNotCalled
    /\ fetchIn = NoFetchCall /\ fetch = FetchNotStarted

PostNotDone == [done |-> FALSE, exc |-> NoExc]

Callers == {1, 2}
NoClient == "none"
Absent == [exists |-> FALSE]
PyNone == [none |-> TRUE, v |-> <<>>]
NoStoreCall == [op |-> "none", pc |-> "idle", data |-> <<>>, client |-> NoClient,
                exc |-> NoExc, result |-> PyNone, deleted |-> FALSE, code |-> 0]
NoStoreLog == [expected |-> Absent, expired |-> FALSE, attempts |-> 0, shut |-> FALSE]

StoreUnused ==
    /\ redis_client = NoClient /\ use_memory_store = FALSE
    /\ memory_store = Absent /\ redisDb = Absent
    /\ storeCall = [c \in Callers |-> NoStoreCall]
    /\ storeLog = NoStoreLog

Uploaders == {1, 2}
NoFile == [filename |-> <<>>, size |-> 0]
NoUpload == [pc |-> "idle", code |-> 0, file |-> NoFile, file_id |-> 0,
             session |-> Absent]

UploadUnused ==
    upl = [u \in Uploaders |-> NoUpload] /\ blobs = <<>> /\ uploaded = <<>>

SingleUnused == single = <<>> /\ calls = {}

KeywordsUnused ==
    kwIn = <<>> /\ kwOut = [called |-> FALSE, domain |-> <<>>, value |-> <<>>]

NoFanIn == [web |-> <<>>, faculty |-> <<>>, enrich |-> <<>>]
FanNotStarted == [stage |-> "idle", finished |-> <<>>, order |-> <<>>,
                  search_pairs |-> <<>>, unique_faculty |-> <<>>,
                  professors |-> <<>>]

FanUnused == fanIn = NoFanIn /\ fan = FanNotStarted

Requests == {1, 2}
NotStarted == [pc |-> "idle", local |-> NoSession, code |-> 0]
NoRun == [pc |-> "idle", stage |-> 0, local |-> NoSession]
NotServed == [match_id |-> 0, code |-> 0, results |-> <<>>]
NoLoad == [starts |-> 0, uploads |-> 0, delete |-> FALSE, poll |-> FALSE]

SessUnused ==
    /\ starts = [r \in Requests |-> NotStarted]
    /\ runs = [r \in Requests |-> NoRun]
    /\ gone = [pc |-> "idle", code |-> 0]
    /\ served = NotServed
    /\ sessLog = [load |-> NoLoad, reset |-> 0]

LateUnused == FanUnused /\ SessUnused

ExtrasUnused ==
    StoreUnused /\ UploadUnused /\ SingleUnused /\ KeywordsUnused /\ LateUnused

PostUnused ==
    /\ matched = <<>> /\ profObj = <<>> /\ postTask = <<>>
    /\ postOut = PostNotDone

StagesUnused ==
    /\ filterOut = FilterNotCalled
    /\ ScholarUnused
    /\ CacheUnused
    /\ ToolsUnused
    /\ DiscoveryUnused
    /\ PostUnused
    /\ ExtrasUnused

RankInit ==
    /\ professors \in ProfessorLists
    /\ response \in RankResponses
    /\ rankOut = NotCalled
    /\ PipelineUnused
    /\ EnrichUnused
    /\ StagesUnused

CallGenerateMatches ==
    /\ ~rankOut.called
    /\ rankOut' = generate_matches(professors, response)
    /\ UNCHANGED <<professors, response, pipeVars, enrichVars, stageVars>>

RankNext == CallGenerateMatches

SpecRank == RankInit /\ [][RankNext]_vars

(***************************************************************************)
(* Session store (app/services/redis.py).  One session id; the store maps  *)
(* it to a JSON document or to nothing.  get_session hands out a copy.     *)
(***************************************************************************)
Session(doc) == [exists |-> TRUE, doc |-> doc]

\* session[key] = val on a dict
Put(doc, key, val) ==
    [k \in (DOMAIN doc) \cup {key} |-> IF k = key THEN val ELSE doc[k]]

\* session.get(key, default)
Get(doc, key, default) == IF key \in DOMAIN doc THEN doc[key] ELSE default

\* create_session: {"status": "created"}
CreatedDoc == [status |-> "created"]

Step(label) == [label |-> label, detail |-> <<>>]

(***************************************************************************)
(* start_match (app/routes/match.py)                                       *)
(***************************************************************************)
RequestFileIds == {<<>>, <<"f1">>}

StartMatchGet ==
    /\ req.pc = "idle"
    /\ \E fids \in RequestFileIds :
         req' = IF store.exists
                THEN [req EXCEPT !.pc = "set", !.local = store, !.file_ids = fids]
                ELSE [req EXCEPT !.pc = "done", !.code = 404]
    /\ UNCHANGED <<store, run, polled, fetched, rankVars, enrichVars, stageVars>>

\* (mutant) start_match that does not reset the progress
StartedDocKeepProgress(doc, match_id) ==
    Put(Put(Put(doc, "match_id", match_id),
            "match_status", "processing"),
        "current_step", Step("Initializing"))

StartedDoc(doc, match_id) ==
    Put(Put(Put(Put(doc, "match_id", match_id),
                "match_status", "processing"),
            "match_progress", 0),
        "current_step", Step("Initializing"))

\* set_session, then the background task is queued and the answer returned
StartMatchSet ==
    /\ req.pc = "set"
    /\ store' = Session(StartedDoc(req.local.doc, 1))
    /\ req' = [req EXCEPT !.pc = "done", !.code = 200, !.match_id = 1]
    /\ run' = [IdleRun EXCEPT !.pc = "update_get", !.stage = 1,
                              !.file_ids = req.file_ids]
    /\ UNCHANGED <<polled, fetched, rankVars, enrichVars, stageVars>>

(***************************************************************************)
(* run_matching and update_progress (app/services/orchestrator.py)         *)
(***************************************************************************)
\* (mutant) two milestones in the wrong order
MilestonesSwapped ==
    << [progress |-> 5,  step |-> "Parsing uploaded documents"],
       [progress |-> 15, step |-> "Fetching faculty directory"],
       [progress |-> 30, step |-> "Filtering candidates"],
       [progress |-> 25, step |-> "Retrieving publication data"],
       [progress |-> 70, step |-> "Analyzing research alignment"],
       [progress |-> 90, step |-> "Fetching citation metrics"],
       [progress |-> 95, step |-> "Finalizing recommendations"] >>

\* The update_progress calls of run_matching, in program order.
Milestones ==
    << [progress |-> 5,  step |-> "Parsing uploaded documents"],
       [progress |-> 15, step |-> "Fetching faculty directory"],
       [progress |-> 25, step |-> "Filtering candidates"],
       [progress |-> 30, step |-> "Retrieving publication data"],
       [progress |-> 70, step |-> "Analyzing research alignment"],
       [progress |-> 90, step |-> "Fetching citation metrics"],
       [progress |-> 95, step |-> "Finalizing recommendations"] >>

LastStage == Len(Milestones)

\* update_progress, first half: session = await get_session(session_id)
UpdateProgressGet ==
    /\ run.pc = "update_get"
    /\ run' = [run EXCEPT !.local = store,
                          !.pc = IF store.exists THEN "update_set"
                                 ELSE IF run.stage = LastStage THEN "final_get"
                                 ELSE "work"]
    /\ UNCHANGED <<store, req, polled, fetched, rankVars, enrichVars, stageVars>>

ProgressDoc(doc, stage) ==
    Put(Put(doc, "match_progress", Milestones[stage].progress),
        "current_step", Step(Milestones[stage].step))

\* update_progress, second half: await set_session(session_id, session)
UpdateProgressSet ==
    /\ run.pc = "update_set"
    /\ store' = Session(ProgressDoc(run.local.doc, run.stage))
    /\ run' = [run EXCEPT !.pc = IF run.stage = LastStage THEN "final_get"
                                 ELSE "work"]
    /\ UNCHANGED <<req, polled, fetched, rankVars, enrichVars, stageVars>>

\* Exception messages: str(e) as a sequence of characters.
ErrorMaxLen == 100
MaxMsgLen == 101
Message(n) == [i \in 1..n |-> i]
Messages == {Message(n) : n \in {0, 1, ErrorMaxLen, MaxMsgLen}}

Raise(msg) == [run EXCEPT !.pc = "except_get", !.raised = TRUE, !.exc = msg]

Advance == [run EXCEPT !.pc = "update_get", !.stage = run.stage + 1]

\* parse_student_documents: skipped without file_ids; the loops over the
\* parsed CV data are not guarded.
ParseStudentDocuments ==
    /\ run.pc = "work" /\ run.stage = 1
    /\ \/ run' = Advance
       \/ /\ run.file_ids # <<>>
          /\ \E msg \in Messages : run' = Raise(msg)
    /\ UNCHANGED <<store, req, polled, fetched, rankVars, enrichVars, stageVars>>

\* fetch_faculty: the merge loops run outside the guarded fan-outs.
FetchFaculty ==
    /\ run.pc = "work" /\ run.stage = 2
    /\ \/ run' = Advance
       \/ \E msg \in Messages : run' = Raise(msg)
    /\ UNCHANGED <<store, req, polled, fetched, rankVars, enrichVars, stageVars>>

\* filter_faculty_by_relevance: the generate_text call is outside the try.
FilterFaculty ==
    /\ run.pc = "work" /\ run.stage = 3
    /\ \/ run' = Advance
       \/ \E msg \in Messages : run' = Raise(msg)
    /\ UNCHANGED <<store, req, polled, fetched, rankVars, enrichVars, stageVars>>

\* enrich_professors: returns the profiles of the candidates it could enrich.
EnrichProfessors ==
    /\ run.pc = "work" /\ run.stage = 4
    /\ professors' \in ProfessorLists
    /\ run' = Advance
    /\ UNCHANGED <<store, req, polled, fetched, response, rankOut, enrichVars, stageVars>>

\* Responses of the oracle to the ranking prompt of a run.
PipelineResponses ==
    {[fails |-> FALSE, text |-> CleanText, payload |-> p] :
        p \in SeqsUpTo(EntrySet, 1) \cup {SamplePayload}}
    \cup {[fails |-> FALSE, text |-> t, payload |-> SamplePayload] :
            t \in {<<>>, <<"w">>, <<"[", "w">>, <<"]", "e", "[">>, <<"[", "w", "]">>}}
    \cup {[fails |-> TRUE, text |-> <<>>, payload |-> <<>>]}

\* matches = await generate_matches(professors, research_interests, ...)
GenerateMatches ==
    /\ run.pc = "work" /\ run.stage = 5
    /\ \E resp \in PipelineResponses, msg \in Messages :
         LET out == generate_matches(professors, resp)
         IN  /\ response' = resp
             /\ rankOut' = out
             /\ run' = IF out.exc = NoExc
                       THEN [Advance EXCEPT !.matches = out.value]
                       ELSE Raise(msg)
    /\ UNCHANGED <<store, req, polled, fetched, professors, enrichVars, stageVars>>

\* enrich_matches_with_google_scholar: per-match failures are swallowed; the
\* match list keeps its entries and their order.
EnrichMatchesWithGoogleScholar ==
    /\ run.pc = "work" /\ run.stage = 6
    /\ run' = Advance
    /\ UNCHANGED <<store, req, polled, fetched, rankVars, enrichVars, stageVars>>

\* session = await get_session(session_id)   (end of run_matching)
FinalGet ==
    /\ run.pc = "final_get"
    /\ run' = [run EXCEPT !.local = store,
                          !.pc = IF store.exists THEN "final_set" ELSE "done"]
    /\ UNCHANGED <<store, req, polled, fetched, rankVars, enrichVars, stageVars>>

\* (mutant) the completed write without the progress
CompletedDocNoProgress(doc, matches) ==
    Put(Put(Put(doc, "match_status", "completed"),
            "current_step", Step("Complete")),
        "match_results", matches)

CompletedDoc(doc, matches) ==
    Put(Put(Put(Put(doc, "match_status", "completed"),
                "match_progress", 100),
            "current_step", Step("Complete")),
        "match_results", matches)

\* the write of status, progress, step and results in one set_session
FinalSet ==
    /\ run.pc = "final_set"
    /\ store' = Session(CompletedDoc(run.local.doc, run.matches))
    /\ run' = [run EXCEPT !.pc = "done"]
    /\ UNCHANGED <<req, polled, fetched, rankVars, enrichVars, stageVars>>

(***************************************************************************)
(* run_matching_task: the except branch (app/routes/match.py)              *)
(***************************************************************************)
ExceptGet ==
    /\ run.pc = "except_get"
    /\ run' = [run EXCEPT !.local = store,
                          !.pc = IF store.exists THEN "except_set" ELSE "done"]
    /\ UNCHANGED <<store, req, polled, fetched, rankVars, enrichVars, stageVars>>

\* (mutant) the whole message is stored
ErrorStepWhole(msg) == [label |-> "Error: ", detail |-> msg]

\* f"Error: {str(e)[:100]}"
ErrorStep(msg) == [label |-> "Error: ", detail |-> Take(msg, ErrorMaxLen)]

FailedDoc(doc, msg) ==
    Put(Put(doc, "match_status", "failed"), "current_step", ErrorStep(msg))

ExceptSet ==
    /\ run.pc = "except_set"
    /\ store' = Session(FailedDoc(run.local.doc, run.exc))
    /\ run' = [run EXCEPT !.pc = "done"]
    /\ UNCHANGED <<req, polled, fetched, rankVars, enrichVars, stageVars>>

(***************************************************************************)
(* Pollers: get_match_status and get_match_results                         *)
(***************************************************************************)
MatchFound(match_id) ==
    store.exists /\ Get(store.doc, "match_id", 0) = match_id

GetMatchStatus ==
    /\ req.pc = "done" /\ req.code = 200
    /\ polled' = IF ~MatchFound(req.match_id) THEN [code |-> 404]
                 ELSE [code |-> 200,
                       status |-> Get(store.doc, "match_status", "unknown"),
                       progress |-> Get(store.doc, "match_progress", 0),
                       current_step |-> Get(store.doc, "current_step", Step("None"))]
    /\ UNCHANGED <<store, req, run, fetched, rankVars, enrichVars, stageVars>>

GetMatchResults ==
    /\ req.pc = "done" /\ req.code = 200
    /\ fetched' = IF ~MatchFound(req.match_id) THEN [code |-> 404]
                  ELSE IF Get(store.doc, "match_status", "unknown") # "completed"
                      THEN [code |-> 400]
                  ELSE [code |-> 200, status |-> "completed",
                        results |-> Get(store.doc, "match_results", <<>>)]
    /\ UNCHANGED <<store, req, run, polled, rankVars, enrichVars, stageVars>>

(***************************************************************************)
(* Spec: one session, one start_match, its background run, and pollers     *)
(***************************************************************************)
Init ==
    /\ store \in {NoSession, Session(CreatedDoc)}
    /\ req = IdleReq
    /\ run = IdleRun
    /\ polled = NoAnswer
    /\ fetched = NoAnswer
    /\ professors = <<>>
    /\ response = [fails |-> FALSE, text |-> <<>>, payload |-> <<>>]
    /\ rankOut = NotCalled
    /\ EnrichUnused
    /\ StagesUnused

Next ==
    \/ StartMatchGet
    \/ StartMatchSet
    \/ UpdateProgressGet
    \/ UpdateProgressSet
    \/ ParseStudentDocuments
    \/ FetchFaculty
    \/ FilterFaculty
    \/ EnrichProfessors
    \/ GenerateMatches
    \/ EnrichMatchesWithGoogleScholar
    \/ FinalGet
    \/ FinalSet
    \/ ExceptGet
    \/ ExceptSet
    \/ GetMatchStatus
    \/ GetMatchResults

Spec == Init /\ [][Next]_vars

(***************************************************************************)
(* enrich_professors: one task per candidate (SpecEnrich)                  *)
(*                                                                         *)
(* Each task runs enrich_with_limit: it takes a slot of the semaphore,     *)
(* runs enrich_single_professor and gives the slot back on return and on   *)
(* exception (async with).  A task is suspended at a cache call            *)
(* (cache_get, cache_put) or at a tool/oracle call (tools).                *)
(***************************************************************************)
MaxCandidates == 3

Candidates == {[name |-> n] : n \in {"", "ann", "bob"}}

NoProfile == [id |-> [src |-> "none", n |-> 0], name |-> ""]
Pending == [kind |-> "pending", profile |-> NoProfile]
ReturnedNone == [kind |-> "none", profile |-> NoProfile]
RaisedException == [kind |-> "exception", profile |-> NoProfile]
ReturnedProfile(prof) == [kind |-> "profile", profile |-> prof]

\* ProfessorProfile(id=uuid4(), name=name, ...): the id is fresh per task
NewProfile(i) == [id |-> [src |-> "uuid4", n |-> i], name |-> faculty_data[i].name]

\* _cache_to_profile(cached): the id of the stored record
CachedProfile(i) == [id |-> [src |-> "cache", n |-> 0], name |-> faculty_data[i].name]

EnrichInit ==
    /\ faculty_data \in SeqsUpTo(Candidates, MaxCandidates)
    /\ task = [i \in 1..Len(faculty_data) |-> [pc |-> "created", result |-> Pending]]
    /\ crowd = NoCrowd
    /\ semValue = SemaphoreLimit
    /\ enrichOut = EnrichNotStarted
    /\ professors = <<>>
    /\ response = [fails |-> FALSE, text |-> <<>>, payload |-> <<>>]
    /\ rankOut = NotCalled
    /\ PipelineUnused
    /\ StagesUnused

\* The task leaves `async with semaphore` with its result.
Leave(i, result) ==
    /\ task' = [task EXCEPT ![i] = [pc |-> "done", result |-> result]]
    /\ semValue' = semValue + 1

\* async with semaphore: ... enrich_single_professor up to its first await;
\* a candidate without a name returns None before any call.
TaskEnter(i) ==
    /\ task[i].pc = "created"
    /\ semValue > 0
    /\ IF faculty_data[i].name = ""
       THEN /\ task' = [task EXCEPT ![i] = [pc |-> "done", result |-> ReturnedNone]]
            /\ UNCHANGED semValue
       ELSE /\ task' = [task EXCEPT ![i].pc = "cache_get"]
            /\ semValue' = semValue - 1
    /\ UNCHANGED <<faculty_data, crowd, enrichOut, rankVars, pipeVars, stageVars>>

\* cached = await get_cached_professor(name, university)
CacheGetDone(i) ==
    /\ task[i].pc = "cache_get"
    /\ \/ Leave(i, ReturnedProfile(CachedProfile(i)))
       \/ Leave(i, RaisedException)
       \/ /\ task' = [task EXCEPT ![i].pc = "tools"]
          /\ UNCHANGED semValue
    /\ UNCHANGED <<faculty_data, crowd, enrichOut, rankVars, pipeVars, stageVars>>

\* search_scholar, then get_professor_page or get_publications and
\* extract_research_areas; the profile is built or an exception is raised
\* (unexpected tool data, validation, oracle failure).
ToolsDone(i) ==
    /\ task[i].pc = "tools"
    /\ \/ /\ task' = [task EXCEPT ![i].pc = "cache_put"]
          /\ UNCHANGED semValue
       \/ Leave(i, RaisedException)
    /\ UNCHANGED <<faculty_data, crowd, enrichOut, rankVars, pipeVars, stageVars>>

\* await cache_professor(prof); return prof
CachePutDone(i) ==
    /\ task[i].pc = "cache_put"
    /\ \/ Leave(i, ReturnedProfile(NewProfile(i)))
       \/ Leave(i, RaisedException)
    /\ UNCHANGED <<faculty_data, crowd, enrichOut, rankVars, pipeVars, stageVars>>

\* (mutant) asyncio.gather without return_exceptions=True
GatherRaising(results) ==
    IF \E k \in 1..Len(results) : results[k].kind = "exception"
    THEN [raised |-> TRUE, value |-> <<>>]
    ELSE [raised |-> FALSE, value |-> results]

\* results = await asyncio.gather(*tasks, return_exceptions=True)
Gather(results) == [raised |-> FALSE, value |-> results]

\* isinstance(result, ProfessorProfile)
IsProfessorProfile(result) == result.kind = "profile"

\* for result in results: if isinstance(...): professors.append(result)
ProfilesOf(results) ==
    LET kept == SelectSeq(results, IsProfessorProfile)
    IN  [k \in 1..Len(kept) |-> kept[k].profile]

\* gather returns once every task is done; enrich_professors returns the list
EnrichReturn ==
    /\ ~enrichOut.done
    /\ \A i \in 1..Len(task) : task[i].pc = "done"
    /\ LET got == Gather([i \in 1..Len(task) |-> task[i].result])
       IN  enrichOut' = [done |-> TRUE, raised |-> got.raised,
                         value |-> IF got.raised THEN <<>>
                                   ELSE ProfilesOf(got.value)]
    /\ UNCHANGED <<faculty_data, task, crowd, semValue, rankVars, pipeVars, stageVars>>

EnrichNext ==
    \/ \E i \in 1..Len(task) : TaskEnter(i)
    \/ \E i \in 1..Len(task) : CacheGetDone(i)
    \/ \E i \in 1..Len(task) : ToolsDone(i)
    \/ \E i \in 1..Len(task) : CachePutDone(i)
    \/ EnrichReturn

SpecEnrich == EnrichInit /\ [][EnrichNext]_vars

(***************************************************************************)
(* enrich_professors admission (SpecAdmit): the same tasks counted by      *)
(* position, so that more candidates than slots can be explored.           *)
(***************************************************************************)
NumCandidates == 22

Holding(c) == c.cache_get + c.tools + c.cache_put

AdmitInit ==
    /\ crowd = [NoCrowd EXCEPT !.created = NumCandidates]
    /\ semValue = SemaphoreLimit
    /\ faculty_data = <<>> /\ task = <<>> /\ enrichOut = EnrichNotStarted
    /\ professors = <<>>
    /\ response = [fails |-> FALSE, text |-> <<>>, payload |-> <<>>]
    /\ rankOut = NotCalled
    /\ PipelineUnused
    /\ StagesUnused

\* (mutant) no admission limit
SemaphoreNeverLocked(value, waiting) == FALSE

\* Semaphore.locked(): no free slot, or tasks already queued
SemaphoreLocked(value, waiting) == value = 0 \/ waiting > 0

\* async with semaphore (Semaphore.acquire): take a slot or queue up
AdmitAcquire ==
    /\ crowd.created > 0
    /\ IF SemaphoreLocked(semValue, crowd.waiting)
       THEN /\ crowd' = [crowd EXCEPT !.created = @ - 1, !.waiting = @ + 1]
            /\ UNCHANGED semValue
       ELSE /\ crowd' = [crowd EXCEPT !.created = @ - 1, !.cache_get = @ + 1]
            /\ semValue' = semValue - 1
    /\ UNCHANGED <<faculty_data, task, enrichOut, rankVars, pipeVars, stageVars>>

\* (mutant) the slot is given back on return only, here never
ReleaseLeaks(c) ==
    /\ crowd' = [c EXCEPT !.finished = @ + 1]
    /\ UNCHANGED semValue

\* Semaphore.release on leaving `async with`: the slot goes to the first
\* queued task if there is one, else it becomes free.
AdmitRelease(c) ==
    IF c.waiting > 0
    THEN /\ crowd' = [c EXCEPT !.finished = @ + 1, !.waiting = @ - 1,
                               !.cache_get = @ + 1]
         /\ UNCHANGED semValue
    ELSE /\ crowd' = [c EXCEPT !.finished = @ + 1]
         /\ semValue' = semValue + 1

\* get_cached_professor returns: a hit or an exception ends the task, a miss
\* goes on to the tool calls.
AdmitCacheGet ==
    /\ crowd.cache_get > 0
    /\ \/ AdmitRelease([crowd EXCEPT !.cache_get = @ - 1])
       \/ /\ crowd' = [crowd EXCEPT !.cache_get = @ - 1, !.tools = @ + 1]
          /\ UNCHANGED semValue
    /\ UNCHANGED <<faculty_data, task, enrichOut, rankVars, pipeVars, stageVars>>

AdmitTools ==
    /\ crowd.tools > 0
    /\ \/ AdmitRelease([crowd EXCEPT !.tools = @ - 1])
       \/ /\ crowd' = [crowd EXCEPT !.tools = @ - 1, !.cache_put = @ + 1]
          /\ UNCHANGED semValue
    /\ UNCHANGED <<faculty_data, task, enrichOut, rankVars, pipeVars, stageVars>>

AdmitCachePut ==
    /\ crowd.cache_put > 0
    /\ AdmitRelease([crowd EXCEPT !.cache_put = @ - 1])
    /\ UNCHANGED <<faculty_data, task, enrichOut, rankVars, pipeVars, stageVars>>

AdmitNext ==
    \/ AdmitAcquire
    \/ AdmitCacheGet
    \/ AdmitTools
    \/ AdmitCachePut

SpecAdmit == AdmitInit /\ [][AdmitNext]_vars

\* lines 508-515: gather returns once every task has ended
AdmitReturn ==
    /\ ~enrichOut.done
    /\ crowd.finished = NumCandidates
    /\ enrichOut' = [enrichOut EXCEPT !.done = TRUE]
    /\ UNCHANGED <<faculty_data, task, crowd, semValue, rankVars, pipeVars, stageVars>>

AdmitLiveNext == AdmitNext \/ AdmitReturn

\* The event loop runs every task that can run, and every cache and tool
\* call eventually returns or fails.
AdmitFairness ==
    /\ WF_vars(AdmitAcquire)
    /\ WF_vars(AdmitCacheGet)
    /\ WF_vars(AdmitTools)
    /\ WF_vars(AdmitCachePut)
    /\ WF_vars(AdmitReturn)

SpecAdmitLive == AdmitInit /\ [][AdmitLiveNext]_vars /\ AdmitFairness

(***************************************************************************)
(* filter_faculty_by_relevance (SpecFilter)                                *)
(*                                                                         *)
(* The oracle is asked for a JSON array of index numbers.  An element of   *)
(* the parsed array is a record [obj, kind, v]; Python's json gives int    *)
(* for a JSON integer and bool for true/false, and bool is a subclass of   *)
(* int (True is 1, False is 0).                                            *)
(***************************************************************************)
MaxFaculty == 32

Faculty(i) == [name |-> i]

FacultyOfSize(n) == [i \in 1..n |-> Faculty(i)]

JInt(n) == [obj |-> FALSE, kind |-> "int", v |-> n]
JBool(n) == [obj |-> FALSE, kind |-> "bool", v |-> n]
JOther(kind) == [obj |-> FALSE, kind |-> kind, v |-> 0]

\* isinstance(i, int)
IsInt(e) == e.kind \in {"int", "bool"}

\* 0 <= i < len(faculty_data)
InRange(e, n) == 0 <= e.v /\ e.v < n

\* [faculty_data[i] for i in indices if isinstance(i, int) and 0 <= i < len(...)]
RECURSIVE SelectedFaculty(_, _)
SelectedFaculty(fd, indices) ==
    IF indices = <<>> THEN <<>>
    ELSE LET i == Head(indices)
             rest == SelectedFaculty(fd, Tail(indices))
         IN  IF IsInt(i) /\ InRange(i, Len(fd))
             THEN <<fd[i.v + 1]>> \o rest
             ELSE rest

FilterLimit == 30

\* (mutant) len(faculty_data) < 30
WithinLimitStrict(n) == n < FilterLimit

\* len(faculty_data) <= 30
WithinLimit(n) == n <= FilterLimit

FilterReturned(asked, v) == [called |-> TRUE, asked |-> asked, exc |-> NoExc, value |-> v]

\* (mutant) the fallback returns the whole list
FallbackAll(fd) == FilterReturned(TRUE, fd)

\* return faculty_data[:30]
FallbackFirst30(fd) == FilterReturned(TRUE, Take(fd, FilterLimit))

filter_faculty_by_relevance(fd, resp) ==
    IF WithinLimit(Len(fd)) THEN FilterReturned(FALSE, fd)
    ELSE IF resp.fails
    THEN [called |-> TRUE, asked |-> TRUE, exc |-> "OracleError", value |-> <<>>]
    ELSE LET json_match == RegexSearchArray(resp.text)
         IN  IF ~json_match.found THEN FallbackFirst30(fd)
             ELSE LET indices == JsonLoads(json_match.sub, resp.payload)
                  IN  IF ~indices.ok THEN FallbackFirst30(fd)
                      ELSE LET selected == SelectedFaculty(fd, indices.value)
                           IN  IF selected # <<>>
                               THEN FilterReturned(TRUE, selected)
                               ELSE FallbackFirst30(fd)

FilterSizes == {0, 1, FilterLimit - 1, FilterLimit, FilterLimit + 1, MaxFaculty}

IndexElems ==
    {JInt(-1), JInt(0), JInt(FilterLimit), JInt(MaxFaculty - 1), JInt(MaxFaculty),
     JBool(1), JOther("float"), JOther("str"), JOther("null"), JOther("dict")}

AllIndices == [i \in 1..MaxFaculty |-> JInt(i - 1)]

SampleIndices == <<JInt(FilterLimit), JInt(0)>>

FilterResponses ==
    {[fails |-> FALSE, text |-> CleanText, payload |-> p] :
        p \in SeqsUpTo(IndexElems, 2) \cup {AllIndices}}
    \cup {[fails |-> FALSE, text |-> t, payload |-> SampleIndices] :
            t \in SeqsUpTo(Tokens, MaxTextLen)}
    \cup {[fails |-> TRUE, text |-> <<>>, payload |-> <<>>]}

FilterFrame == <<professors, response, rankOut, pipeVars, enrichVars, scholarVars,
                 cacheVars, toolVars, discVars, postVars, extraVars>>

FilterInit ==
    /\ faculty_data \in {FacultyOfSize(n) : n \in FilterSizes}
    /\ response \in FilterResponses
    /\ filterOut = FilterNotCalled
    /\ ScholarUnused
    /\ CacheUnused
    /\ ToolsUnused
    /\ DiscoveryUnused
    /\ PostUnused
    /\ task = <<>> /\ crowd = NoCrowd
    /\ semValue = SemaphoreLimit /\ enrichOut = EnrichNotStarted
    /\ professors = <<>>
    /\ rankOut = NotCalled
    /\ PipelineUnused
    /\ ExtrasUnused

CallFilter ==
    /\ ~filterOut.called
    /\ filterOut' = filter_faculty_by_relevance(faculty_data, response)
    /\ UNCHANGED FilterFrame

FilterNext == CallFilter

SpecFilter == FilterInit /\ [][FilterNext]_vars

(***************************************************************************)
(* enrich_single_professor: choosing the scholar (SpecScholar)             *)
(*                                                                         *)
(* A string is a sequence of characters.  search_scholar returns the       *)
(* profiles the scholar server builds: objects with the keys author_id,    *)
(* name and affiliations (a list of strings, or null).                     *)
(***************************************************************************)
MaxScholars == 3

\* str.lower() on the characters used here
LowerChar(c) ==
    IF c = "M" THEN "m" ELSE IF c = "I" THEN "i" ELSE IF c = "T" THEN "t" ELSE c

Lower(str) == [i \in 1..Len(str) |-> LowerChar(str[i])]

KeywordMit == <<"m", "i", "t">>
KeywordCmu == <<"c", "m", "u">>

AffUpper == <<"M", "I", "T">>
AffMixed == <<"x", "M", "i", "t", "x">>
AffPart == <<"m", "i", "x", "t">>
AffOther == <<"o", "x", "f">>

AffiliationValues ==
    {JNull, JList(<<>>), JList(<<AffOther>>), JList(<<AffUpper>>),
     JList(<<AffPart, AffMixed>>), JList(<<AffPart>>)}

KeywordLists == {<<>>, <<KeywordMit>>, <<KeywordCmu, KeywordMit>>}

ScholarCandidate(id, affs) == [found |-> TRUE, author_id |-> id, affiliations |-> affs]

ScholarResults ==
    UNION {{[i \in 1..n |-> ScholarCandidate(i, a[i])] :
                a \in [1..n -> AffiliationValues]} : n \in 0..MaxScholars}

\* affiliations = cand.get("affiliations", []); `not affiliations` skips
\* null and the empty list
AffiliationsOf(cand) ==
    IF cand.affiliations.t = "list" THEN cand.affiliations.v ELSE <<>>

\* aff_lower = aff.lower(); any(k in aff_lower for k in domain_keywords)
KeywordInAff(aff, keywords) ==
    \E k \in 1..Len(keywords) : StrContains(Lower(aff), keywords[k])

\* for aff in affiliations: ... scholar = cand; break
CandidateMatches(cand, keywords) ==
    \E a \in 1..Len(AffiliationsOf(cand)) :
        KeywordInAff(AffiliationsOf(cand)[a], keywords)

\* for cand in candidates: ... if scholar: break
RECURSIVE FirstMatching(_, _)
FirstMatching(cands, keywords) ==
    IF cands = <<>> THEN NoScholar
    ELSE IF CandidateMatches(Head(cands), keywords) THEN Head(cands)
    ELSE FirstMatching(Tail(cands), keywords)

\* (mutant) no fallback to the first search result
KeepUnmatched(scholar, cands) == scholar

\* if not scholar: scholar = candidates[0]
FallbackFirstResult(scholar, cands) ==
    IF ~scholar.found THEN cands[1] ELSE scholar

\* scholar = None; if candidates: <loop>; <fallback>
SelectScholar(cands, keywords) ==
    IF cands = <<>> THEN NoScholar
    ELSE FallbackFirstResult(FirstMatching(cands, keywords), cands)

ScholarFrame == <<rankVars, pipeVars, enrichVars, filterVars, cacheVars, toolVars,
                  discVars, postVars, extraVars>>

ScholarInit ==
    /\ candidates \in ScholarResults
    /\ domain_keywords \in KeywordLists
    /\ scholarOut = ScholarNotCalled
    /\ filterOut = FilterNotCalled
    /\ CacheUnused
    /\ ToolsUnused
    /\ DiscoveryUnused
    /\ PostUnused
    /\ professors = <<>>
    /\ response = [fails |-> FALSE, text |-> <<>>, payload |-> <<>>]
    /\ rankOut = NotCalled
    /\ PipelineUnused
    /\ EnrichUnused
    /\ ExtrasUnused

\* lines 383-404: after the search, either the profile-page branch
\* (`if not scholar`) or the publications branch is taken
ChooseScholar ==
    /\ ~scholarOut.called
    /\ LET scholar == SelectScholar(candidates, domain_keywords)
       IN  scholarOut' = [called |-> TRUE, scholar |-> scholar,
                          branch |-> IF ~scholar.found THEN "profile_page"
                                     ELSE "publications"]
    /\ UNCHANGED <<candidates, domain_keywords, ScholarFrame>>

ScholarNext == ChooseScholar

SpecScholar == ScholarInit /\ [][ScholarNext]_vars

(***************************************************************************)
(* Professor cache (SpecCache): app/services/cache.py on the table         *)
(* professor_cache of app/models/database.py.  The table has a primary key *)
(* on id and plain indexes on name and university.  Time is counted in     *)
(* days.  cache_professor awaits twice: the SELECT and the commit.         *)
(***************************************************************************)
MaxClock == 8
MaxWrites == 3

CACHE_TTL_DAYS == 7

RowsOfKey(rows, key) == {r \in rows : r.key = key}

\* ProfessorCache.updated_at > datetime.utcnow() - timedelta(days=CACHE_TTL_DAYS)
IsFresh(row, t) == row.updated_at > t - CACHE_TTL_DAYS

\* result.scalar_one_or_none(): the row, None, or MultipleResultsFound
ScalarOneOrNone(rows) ==
    IF Cardinality(rows) > 1
    THEN [exc |-> "MultipleResultsFound", found |-> FALSE, row |-> NoRow]
    ELSE IF rows = {} THEN [exc |-> NoExc, found |-> FALSE, row |-> NoRow]
    ELSE [exc |-> NoExc, found |-> TRUE, row |-> CHOOSE r \in rows : TRUE]

get_cached_professor(rows, key, t) ==
    ScalarOneOrNone({r \in RowsOfKey(rows, key) : IsFresh(r, t)})

CacheFrame == <<rankVars, pipeVars, enrichVars, filterVars, scholarVars, toolVars,
                discVars, postVars, extraVars>>

CacheInit ==
    /\ CacheUnused
    /\ filterOut = FilterNotCalled
    /\ ScholarUnused
    /\ ToolsUnused
    /\ DiscoveryUnused
    /\ PostUnused
    /\ professors = <<>>
    /\ response = [fails |-> FALSE, text |-> <<>>, payload |-> <<>>]
    /\ rankOut = NotCalled
    /\ PipelineUnused
    /\ EnrichUnused
    /\ ExtrasUnused

\* cache_professor, lines 47-63: the SELECT by (name, university) without a
\* freshness condition; on a hit the fields of `existing` are assigned,
\* updated_at = utcnow() among them, before the commit is awaited.
CacheProfessorSelect(w, key) ==
    /\ writer[w].pc = "idle"
    /\ writes < MaxWrites
    /\ writes' = writes + 1
    /\ LET existing == ScalarOneOrNone(RowsOfKey(cache, key))
       IN  writer' = [writer EXCEPT ![w] =
               IF existing.exc # NoExc
               THEN [IdleWriter EXCEPT !.exc = existing.exc]
               ELSE [pc |-> "commit", key |-> key, n |-> writes + 1,
                     existing |-> existing.row.id, stamp |-> now, exc |-> NoExc]]
    /\ UNCHANGED <<cache, now, committed, lookup, CacheFrame>>

\* the UPDATE of the existing row (id and name are not assigned)
UpdateRow(rows, id, n, stamp) ==
    {IF r.id = id THEN [r EXCEPT !.data = n, !.updated_at = stamp] ELSE r : r \in rows}

\* session.add(ProfessorCache(id=str(profile.id), ...)): a new row under the
\* profile's fresh uuid4, updated_at by column default at the INSERT
InsertRow(rows, key, n, t) ==
    rows \cup {[id |-> n, key |-> key, data |-> n, updated_at |-> t]}

\* await session.commit()
CacheProfessorCommit(w) ==
    /\ writer[w].pc = "commit"
    /\ cache' = IF writer[w].existing # 0
                THEN UpdateRow(cache, writer[w].existing, writer[w].n, writer[w].stamp)
                ELSE InsertRow(cache, writer[w].key, writer[w].n, now)
    /\ committed' = [committed EXCEPT ![writer[w].key] = writer[w].n]
    /\ writer' = [writer EXCEPT ![w] = IdleWriter]
    /\ UNCHANGED <<now, writes, lookup, CacheFrame>>

\* get_cached_professor(name, university)
CacheGet(key) ==
    /\ LET got == get_cached_professor(cache, key, now)
       IN  lookup' = [seq |-> 1 - lookup.seq, key |-> key, exc |-> got.exc,
                      found |-> got.found, row |-> got.row]
    /\ UNCHANGED <<cache, now, writer, writes, committed, CacheFrame>>

\* a day passes
Tick ==
    /\ now < MaxClock
    /\ now' = now + 1
    /\ UNCHANGED <<cache, writer, writes, committed, lookup, CacheFrame>>

CacheNext ==
    \/ \E w \in Writers, key \in CacheKeys : CacheProfessorSelect(w, key)
    \/ \E w \in Writers : CacheProfessorCommit(w)
    \/ \E key \in CacheKeys : CacheGet(key)
    \/ Tick

SpecCache == CacheInit /\ [][CacheNext]_vars

(***************************************************************************)
(* Tool gateway and oracle (SpecTools): MCPServerManager.call_tool, the    *)
(* client wrappers of app/services/mcp_client.py and generate_text of      *)
(* app/services/gemini.py.  A result is named by its shape.                *)
(*                                                                         *)
(* What the transport does with a call (outcome):                          *)
(*   no_session     the server was never started                           *)
(*   raises         session.call_tool / generate_content raises            *)
(*   no_content     the reply has no content                               *)
(*   error_object   the tool reports its failure as {"error": ...}         *)
(*   not_json       the reply text is not JSON                             *)
(*   array, empty_array, object, string, null    the decoded reply         *)
(***************************************************************************)
McpOperations ==
    {"search_web", "search_faculty", "get_professor_page", "search_scholar",
     "get_publications", "get_citation_metrics", "find_google_scholar_url",
     "scrape_google_scholar_metrics", "parse_cv"}

Operations == McpOperations \cup {"generate_text"}

McpOutcomes ==
    {"no_session", "raises", "no_content", "error_object", "not_json",
     "array", "empty_array", "object", "string", "null"}

OracleOutcomes == {"raises", "string", "null"}

ToolReturned(v) == [called |-> TRUE, exc |-> NoExc, value |-> v]
ToolRaised(e) == [called |-> TRUE, exc |-> e, value |-> "none"]

\* MCPServerManager.call_tool: {} without a session, {} when the call raises,
\* {} without content, {"raw": text} when the text is not JSON, else the
\* decoded value
call_tool(outcome) ==
    IF outcome \in {"no_session", "raises", "no_content"} THEN "empty_object"
    ELSE IF outcome = "not_json" THEN "raw_object"
    ELSE outcome

IsList(v) == v \in {"array", "empty_array"}

\* return result if isinstance(result, list) else []
ListOrEmpty(v) == IF IsList(v) THEN v ELSE "empty_array"

\* SearchClient.find_google_scholar_url: a URL string, else nothing
StringOrNone(v) == IF v = "string" THEN v ELSE "null"

\* generate_text: no handler around generate_content; response.text or ""
generate_text(outcome) ==
    IF outcome = "raises" THEN ToolRaised("APIError")
    ELSE IF outcome = "null" THEN ToolReturned("empty_string")
    ELSE ToolReturned("string")

\* the client method the pipeline calls for each operation
Invoke(op, outcome) ==
    IF op = "generate_text" THEN generate_text(outcome)
    ELSE IF op \in {"search_scholar", "get_publications", "search_web"}
    THEN ToolReturned(ListOrEmpty(call_tool(outcome)))
    ELSE IF op = "find_google_scholar_url"
    THEN ToolReturned(StringOrNone(call_tool(outcome)))
    ELSE ToolReturned(call_tool(outcome))

ToolFrame == <<rankVars, pipeVars, enrichVars, filterVars, scholarVars, cacheVars,
               discVars, postVars, extraVars>>

ToolInit ==
    /\ toolCall \in {[op |-> op, outcome |-> o] : op \in McpOperations, o \in McpOutcomes}
                    \cup {[op |-> "generate_text", outcome |-> o] : o \in OracleOutcomes}
    /\ toolOut = ToolNotCalled
    /\ filterOut = FilterNotCalled
    /\ ScholarUnused
    /\ CacheUnused
    /\ DiscoveryUnused
    /\ PostUnused
    /\ professors = <<>>
    /\ response = [fails |-> FALSE, text |-> <<>>, payload |-> <<>>]
    /\ rankOut = NotCalled
    /\ PipelineUnused
    /\ EnrichUnused
    /\ ExtrasUnused

InvokeTool ==
    /\ ~toolOut.called
    /\ toolOut' = Invoke(toolCall.op, toolCall.outcome)
    /\ UNCHANGED <<toolCall, ToolFrame>>

ToolNext == InvokeTool

SpecTools == ToolInit /\ [][ToolNext]_vars

(***************************************************************************)
(* discover_faculty_url (SpecDiscover)                                     *)
(*                                                                         *)
(* A URL or hostname is a sequence of tokens: a scheme token ("https://",  *)
(* "http://") can only come first; "/" and "?" are the characters          *)
(* themselves; "[" is a stray bracket; every other token is a run of       *)
(* characters without "/", "?", "[" or "#".                                *)
(***************************************************************************)
MaxUrlLen == 3

SchemeTokens == {"https://", "http://"}
BodyTokens == {"www.", "mit.edu", "/", "coe", "Faculty", "?", "["}

Universities ==
    {scheme \o body : scheme \in {<<>>, <<"https://">>, <<"http://">>},
                      body \in SeqsUpTo(BodyTokens, MaxUrlLen)}

\* university.startswith(("http://", "https://"))
HasScheme(url) == url # <<>> /\ url[1] \in SchemeTokens

\* (mutant) the input is used as given
KeepAsGiven(url) == url

\* if not university.startswith(...): university = "https://" + university
EnsureScheme(url) == IF HasScheme(url) THEN url ELSE <<"https://">> \o url

\* index of the first token of `stops` at or after position i (Len + 1: none)
FirstOf(url, i, stops) ==
    LET hits == {k \in i..Len(url) : url[k] \in stops}
    IN  IF hits = {} THEN Len(url) + 1
        ELSE CHOOSE k \in hits : \A h \in hits : k <= h

\* what follows "//" when the URL has an authority part: after a scheme
\* token, or after a leading "//"
StartsWithSlashes(url) == Len(url) >= 2 /\ url[1] = "/" /\ url[2] = "/"

\* urllib.parse.urlparse: after "//", netloc runs to the first "/" or "?"
\* and path from that "/" to the "?"; without "//" everything up to the "?"
\* is path.  An unmatched "[" in netloc raises ValueError.
UrlParse(url) ==
    IF HasScheme(url) \/ StartsWithSlashes(url)
    THEN LET body == IF HasScheme(url) THEN Tail(url) ELSE SubSeq(url, 3, Len(url))
             d == FirstOf(body, 1, {"/", "?"})
             q == FirstOf(body, 1, {"?"})
             netloc == SubSeq(body, 1, d - 1)
         IN  [raises |-> \E k \in 1..Len(netloc) : netloc[k] = "[",
              netloc |-> netloc,
              path |-> SubSeq(body, d, q - 1)]
    ELSE [raises |-> FALSE, netloc |-> <<>>,
          path |-> SubSeq(url, 1, FirstOf(url, 1, {"?"}) - 1)]

explicit_keywords == {"faculty", "staff", "people", "directory", "team", "professors"}

\* str.lower() on a token
LowerToken(t) == IF t = "Faculty" THEN "faculty" ELSE t

\* any(k in path for k in explicit_keywords), path = parsed.path.lower()
KeywordInPath(path) ==
    \E k \in 1..Len(path) : LowerToken(path[k]) \in explicit_keywords

\* parsed.netloc.replace("www.", "")
BareDomain(netloc) == SelectSeq(netloc, LAMBDA t : t # "www.")

\* f"{interest} faculty directory {domain}", "Computer Science" without interest
QueryFor(interest, domain) ==
    [topic |-> IF interest = "" THEN "Computer Science" ELSE interest,
     domain |-> domain]

DiscoverReturned(searched, query, v) ==
    [called |-> TRUE, exc |-> NoExc, searched |-> searched, query |-> query,
     value |-> v]

\* urls: what search_client.search_web returns for the query
discover_faculty_url(univ, interest, urls) ==
    LET university == EnsureScheme(univ)
        parsed == UrlParse(university)
    IN  IF parsed.raises
        THEN [called |-> TRUE, exc |-> "ValueError", searched |-> FALSE,
              query |-> NoQuery, value |-> <<>>]
        ELSE IF KeywordInPath(parsed.path)
        THEN DiscoverReturned(FALSE, NoQuery, <<university>>)
        ELSE LET query == QueryFor(interest, BareDomain(parsed.netloc))
             IN  IF urls # <<>> THEN DiscoverReturned(TRUE, query, urls)
                 ELSE DiscoverReturned(TRUE, query, <<university>>)

DirectoryUrl == <<"https://", "cs.mit.edu", "/", "people">>
OtherUrl == <<"https://", "mit.edu", "/", "eecs">>

WebResults == {<<>>, <<DirectoryUrl>>, <<DirectoryUrl, OtherUrl>>, <<OtherUrl>>}

DiscoverFrame == <<rankVars, pipeVars, enrichVars, filterVars, scholarVars, cacheVars,
                   toolVars, fetchIn, fetch, postVars, extraVars>>

DiscoverInit ==
    /\ discIn \in [university : Universities, interest : {"", "ml"}, urls : WebResults]
    /\ discOut = DiscoverNotCalled
    /\ fetchIn = NoFetchCall /\ fetch = FetchNotStarted
    /\ PostUnused
    /\ filterOut = FilterNotCalled
    /\ ScholarUnused
    /\ CacheUnused
    /\ ToolsUnused
    /\ professors = <<>>
    /\ response = [fails |-> FALSE, text |-> <<>>, payload |-> <<>>]
    /\ rankOut = NotCalled
    /\ PipelineUnused
    /\ EnrichUnused
    /\ ExtrasUnused

CallDiscover ==
    /\ ~discOut.called
    /\ discOut' = discover_faculty_url(discIn.university, discIn.interest, discIn.urls)
    /\ UNCHANGED <<discIn, DiscoverFrame>>

DiscoverNext == CallDiscover

SpecDiscover == DiscoverInit /\ [][DiscoverNext]_vars

(***************************************************************************)
(* fetch_faculty (SpecFetch): the discovery branches, one per interest,    *)
(* run concurrently; then one search_faculty call per distinct URL, again  *)
(* concurrently; then the merge and the deduplication by name.             *)
(*                                                                         *)
(* search_client.search_web goes through the tool gateway: a failed web    *)
(* search comes back as an empty list.                                     *)
(***************************************************************************)
MaxInterests == 4

DiscoveryLimit == 3

InterestPool == <<"ml", "nlp", "cv", "hci", "hpc", "db">>

InterestLists == {SubSeq(InterestPool, 1, n) : n \in 0..MaxInterests}

FetchUniversities ==
    {<<"mit.edu">>, <<"https://", "mit.edu", "/", "Faculty">>, <<"https://", "[">>}

\* what the web search of one branch does
WebOutcomes == [failed : BOOLEAN, urls : WebResults]

\* SearchClient.search_web: the URLs found; a failure of the tool call does not
\* pass the gateway and gives the empty list
SearchWeb(web) == IF web.failed THEN <<>> ELSE web.urls

PendingBranch == [state |-> "pending", exc |-> NoExc, urls |-> <<>>, failed |-> FALSE]

\* a faculty entry of a search_faculty reply
FacultyEntry(name, title) == [dict |-> TRUE, name |-> name, title |-> title]
NotADict == [dict |-> FALSE, name |-> Missing, title |-> 0]

RepliedList(v) == [kind |-> "list", v |-> v]
RepliedOther(kind) == [kind |-> kind, v |-> <<>>]

FacultyReplies ==
    {RepliedOther("raises"), RepliedOther("dict"), RepliedOther("scalar"),
     RepliedList(<<>>),
     RepliedList(<<FacultyEntry(JStr("ann"), 1), FacultyEntry(JStr("bob"), 2),
                   FacultyEntry(JStr("ann"), 3)>>),
     RepliedList(<<FacultyEntry(JStr("Ann"), 4), NotADict, FacultyEntry(JStr(""), 5),
                   FacultyEntry(JNull, 6), FacultyEntry(Missing, 7),
                   FacultyEntry(JStr("bob"), 8)>>),
     RepliedList(<<FacultyEntry(JList(<<"ann">>), 9)>>)}

PendingResult == [state |-> "pending", exc |-> NoExc, value |-> <<>>]

\* truth value of f.get("name"): a non-empty string or a non-empty list
Truthy(name) ==
    \/ name.t = "str" /\ name.v # ""
    \/ name.t = "list" /\ name.v # <<>>

\* isinstance(f, dict) and f.get("name")
IsNamedDict(f) == f.dict /\ Truthy(f.name)

\* search_one(url, interest)
search_one(reply) ==
    IF reply.kind = "raises"
    THEN [state |-> "done", exc |-> "Exception", value |-> <<>>]
    ELSE IF reply.kind # "list"
    THEN [state |-> "done", exc |-> NoExc, value |-> <<>>]
    ELSE [state |-> "done", exc |-> NoExc, value |-> SelectSeq(reply.v, IsNamedDict)]

\* (mutant) asyncio.gather without return_exceptions=True
DiscoveryGatherRaising(branches) ==
    IF \E i \in 1..Len(branches) : branches[i].exc # NoExc
    THEN [raised |-> TRUE, value |-> <<>>]
    ELSE [raised |-> FALSE, value |-> branches]

\* discovery_results = await asyncio.gather(*discovery_tasks, return_exceptions=True)
DiscoveryGather(branches) == [raised |-> FALSE, value |-> branches]

\* the (url, interest) pairs of one branch; an exception is logged and skipped
BranchPairs(branch, interest) ==
    IF branch.exc # NoExc THEN <<>>
    ELSE [k \in 1..Len(branch.urls) |-> [url |-> branch.urls[k], interest |-> interest]]

RECURSIVE AllPairs(_, _, _)
AllPairs(branches, interests, i) ==
    IF i > Len(branches) THEN <<>>
    ELSE BranchPairs(branches[i], interests[i]) \o AllPairs(branches, interests, i + 1)

\* (mutant) seen_urls is never filled
EveryPair(pairs, seen_urls) == pairs

\* if url not in seen_urls: seen_urls.add(url); search_pairs.append(...)
RECURSIVE UniqueByUrl(_, _)
UniqueByUrl(pairs, seen_urls) ==
    IF pairs = <<>> THEN <<>>
    ELSE IF Head(pairs).url \in seen_urls THEN UniqueByUrl(Tail(pairs), seen_urls)
    ELSE <<Head(pairs)>> \o UniqueByUrl(Tail(pairs), seen_urls \cup {Head(pairs).url})

\* for result in fetch_results: if isinstance(result, list): all_faculty.extend(result)
RECURSIVE Extended(_, _)
Extended(results, j) ==
    IF j > Len(results) THEN <<>>
    ELSE (IF results[j].exc = NoExc THEN results[j].value ELSE <<>>)
         \o Extended(results, j + 1)

\* (mutant) seen_names is never filled
RECURSIVE KeepAllNamed(_, _)
KeepAllNamed(all_faculty, seen_names) ==
    IF all_faculty = <<>> THEN [exc |-> NoExc, value |-> <<>>]
    ELSE LET f == Head(all_faculty)
             rest == KeepAllNamed(Tail(all_faculty), seen_names)
         IN  IF f.name.t = "list" THEN [exc |-> "TypeError", value |-> <<>>]
             ELSE IF rest.exc # NoExc THEN rest
             ELSE IF Truthy(f.name) THEN [exc |-> NoExc, value |-> <<f>> \o rest.value]
             ELSE rest

\* for f in all_faculty: name = f.get("name", ""); if name and name not in
\* seen_names: ...; a list as name is unhashable and raises TypeError
RECURSIVE DedupByName(_, _)
DedupByName(all_faculty, seen_names) ==
    IF all_faculty = <<>> THEN [exc |-> NoExc, value |-> <<>>]
    ELSE LET f == Head(all_faculty)
         IN  IF ~Truthy(f.name) THEN DedupByName(Tail(all_faculty), seen_names)
             ELSE IF f.name.t = "list" THEN [exc |-> "TypeError", value |-> <<>>]
             ELSE IF f.name.v \in seen_names
             THEN DedupByName(Tail(all_faculty), seen_names)
             ELSE LET rest == DedupByName(Tail(all_faculty),
                                          seen_names \cup {f.name.v})
                  IN  IF rest.exc # NoExc THEN rest
                      ELSE [exc |-> NoExc, value |-> <<f>> \o rest.value]

FetchFrame == <<rankVars, pipeVars, enrichVars, filterVars, scholarVars, cacheVars,
                toolVars, discIn, discOut, postVars, extraVars>>

FetchInit ==
    /\ fetchIn \in [university : FetchUniversities, research_interests : InterestLists]
    /\ fetch = [FetchNotStarted EXCEPT
                  !.pc = "discover",
                  !.branches = [i \in 1..Min(DiscoveryLimit,
                                             Len(fetchIn.research_interests))
                                  |-> PendingBranch]]
    /\ discIn = NoDiscoverCall /\ discOut = DiscoverNotCalled
    /\ PostUnused
    /\ filterOut = FilterNotCalled
    /\ ScholarUnused
    /\ CacheUnused
    /\ ToolsUnused
    /\ professors = <<>>
    /\ response = [fails |-> FALSE, text |-> <<>>, payload |-> <<>>]
    /\ rankOut = NotCalled
    /\ PipelineUnused
    /\ EnrichUnused
    /\ ExtrasUnused

\* one discover_faculty_url(university, interest) task completes
DiscoverBranch(i) ==
    /\ fetch.pc = "discover"
    /\ fetch.branches[i].state = "pending"
    /\ \E web \in WebOutcomes :
         LET r == discover_faculty_url(fetchIn.university,
                                       fetchIn.research_interests[i], SearchWeb(web))
         IN  fetch' = [fetch EXCEPT !.branches[i] =
                         [state |-> "done", exc |-> r.exc, urls |-> r.value,
                          failed |-> r.searched /\ web.failed]]
    /\ UNCHANGED <<fetchIn, FetchFrame>>

\* lines 268-280 and 297: the gather returns, the pairs are built and the
\* search_one tasks are created
BuildPairs ==
    /\ fetch.pc = "discover"
    /\ \A i \in 1..Len(fetch.branches) : fetch.branches[i].state = "done"
    /\ LET discovery_results == DiscoveryGather(fetch.branches)
       IN  IF discovery_results.raised
           THEN fetch' = [fetch EXCEPT !.pc = "done", !.exc = "ValueError"]
           ELSE LET search_pairs ==
                      UniqueByUrl(AllPairs(discovery_results.value,
                                           fetchIn.research_interests, 1), {})
                IN  fetch' = [fetch EXCEPT
                                !.pc = "search",
                                !.search_pairs = search_pairs,
                                !.results = [j \in 1..Len(search_pairs)
                                               |-> PendingResult]]
    /\ UNCHANGED <<fetchIn, FetchFrame>>

\* one search_one(url, interest) task completes
SearchOne(j) ==
    /\ fetch.pc = "search"
    /\ fetch.results[j].state = "pending"
    /\ \E reply \in FacultyReplies :
         fetch' = [fetch EXCEPT !.results[j] = search_one(reply)]
    /\ UNCHANGED <<fetchIn, FetchFrame>>

\* lines 298-314: the gather returns, the lists are merged and deduplicated
MergeFaculty ==
    /\ fetch.pc = "search"
    /\ \A j \in 1..Len(fetch.results) : fetch.results[j].state = "done"
    /\ LET all_faculty == Extended(fetch.results, 1)
           unique_faculty == DedupByName(all_faculty, {})
       IN  fetch' = [fetch EXCEPT !.pc = "done", !.all_faculty = all_faculty,
                                  !.exc = unique_faculty.exc,
                                  !.value = unique_faculty.value]
    /\ UNCHANGED <<fetchIn, FetchFrame>>

FetchNext ==
    \/ \E i \in 1..Len(fetch.branches) : DiscoverBranch(i)
    \/ BuildPairs
    \/ \E j \in 1..Len(fetch.results) : SearchOne(j)
    \/ MergeFaculty

SpecFetch == FetchInit /\ [][FetchNext]_vars

(***************************************************************************)
(* enrich_matches_with_google_scholar (SpecPost): one enrich_one_match     *)
(* task per match, run concurrently.  A MatchResult refers to its          *)
(* ProfessorProfile object; when the oracle names a professor twice, two   *)
(* matches refer to the same object.  The domain computed at line 550 is   *)
(* only an argument of the URL lookup (_extract_domain returns "" on any   *)
(* error).                                                                 *)
(***************************************************************************)
MaxMatches == 2

\* two professor objects: a longer list of matches names one of them twice
ProfRefs == {1, 2}

NoUrl == "none"
NoMetrics == [h_index |-> 0, i10_index |-> 0, total_citations |-> 0]
EarlierMetrics == [h_index |-> 5, i10_index |-> 3, total_citations |-> 50]

\* ProfessorProfile: the citation fields and, of the others, name and research_areas
Profile(ref, url, metrics) ==
    [name |-> ref, research_areas |-> <<"ml">>, google_scholar_url |-> url,
     citation_metrics |-> metrics]

\* MatchResult number i of the ranked list
Match(i, ref) ==
    [professor |-> ref, match_score |-> 100 - 10 * i, alignment_reasons |-> <<"r">>,
     relevant_publications |-> <<>>, shared_keywords |-> <<"k">>,
     recommendation_text |-> "t"]

MatchLists ==
    UNION {{[i \in 1..n |-> Match(i, refs[i])] : refs \in [1..n -> ProfRefs]} :
             n \in 0..MaxMatches}

\* what search_client.find_google_scholar_url gives
FindReplies == {"url", "none", "raises"}

\* what scholar_client.scrape_google_scholar_metrics gives
ScrapeMetrics(h, c) == [kind |-> "metrics", h_index |-> h, total_citations |-> c]
ScrapeOther(kind) == [kind |-> kind, h_index |-> 0, total_citations |-> 0]

ScrapeReplies ==
    {ScrapeMetrics(7, 70), ScrapeMetrics(7, 0), ScrapeOther("empty"),
     ScrapeOther("error"), ScrapeOther("not_a_dict"), ScrapeOther("not_numbers"),
     ScrapeOther("raises")}

TaskAt(pc, find, scrape) == [pc |-> pc, find |-> find, scrape |-> scrape, exc |-> NoExc]

\* except Exception: pass
TaskSwallowed(t, find, scrape) == TaskAt("done", find, scrape)

\* if url: match.professor.google_scholar_url = url
WithUrl(prof, reply) ==
    IF reply = "url" THEN [prof EXCEPT !.google_scholar_url = "gs_found"] ELSE prof

\* (mutant) the profile is rebuilt around the metrics
RebuiltWithMetrics(prof, metrics) ==
    [prof EXCEPT !.citation_metrics =
                    [h_index |-> metrics.h_index, i10_index |-> 0,
                     total_citations |-> metrics.total_citations],
                 !.research_areas = <<>>]

\* match.professor.citation_metrics = CitationMetrics(h_index=..., total_citations=...)
WithMetrics(prof, metrics) ==
    [prof EXCEPT !.citation_metrics =
                    [h_index |-> metrics.h_index, i10_index |-> 0,
                     total_citations |-> metrics.total_citations]]

PostFrame == <<rankVars, pipeVars, enrichVars, filterVars, scholarVars, cacheVars,
               toolVars, discVars, extraVars>>

PostInit ==
    /\ matched \in MatchLists
    /\ profObj \in [ProfRefs -> {Profile(0, url, m) : url \in {NoUrl, "gs_known"},
                                                     m \in {NoMetrics, EarlierMetrics}}]
    /\ postTask = [i \in 1..Len(matched) |-> TaskAt("start", "none", "none")]
    /\ postOut = PostNotDone
    /\ DiscoveryUnused
    /\ filterOut = FilterNotCalled
    /\ ScholarUnused
    /\ CacheUnused
    /\ ToolsUnused
    /\ professors = <<>>
    /\ response = [fails |-> FALSE, text |-> <<>>, payload |-> <<>>]
    /\ rankOut = NotCalled
    /\ PipelineUnused
    /\ EnrichUnused
    /\ ExtrasUnused

\* line 556: the task starts and awaits the URL lookup, or goes on to line 564
StartMatch(i) ==
    /\ postTask[i].pc = "start"
    /\ LET prof == profObj[matched[i].professor]
       IN  postTask' = [postTask EXCEPT ![i] =
              IF prof.google_scholar_url = NoUrl
              THEN TaskAt("finding", "asked", "none")
              ELSE TaskAt("scraping", "skipped", "asked")]
    /\ UNCHANGED <<matched, profObj, postOut, PostFrame>>

\* lines 557-565: the lookup returns or raises; then the test of line 564
FindReturns(i) ==
    /\ postTask[i].pc = "finding"
    /\ \E reply \in FindReplies :
         LET ref == matched[i].professor
             prof == WithUrl(profObj[ref], reply)
         IN  IF reply = "raises"
             THEN /\ postTask' = [postTask EXCEPT ![i] =
                                    TaskSwallowed(@, reply, "none")]
                  /\ UNCHANGED profObj
             ELSE /\ profObj' = [profObj EXCEPT ![ref] = prof]
                  /\ postTask' = [postTask EXCEPT ![i] =
                        IF prof.google_scholar_url # NoUrl
                        THEN TaskAt("scraping", reply, "asked")
                        ELSE TaskAt("done", reply, "none")]
    /\ UNCHANGED <<matched, postOut, PostFrame>>

\* (mutant) an answer carrying an 'error' entry is used as well
UsableOrError(reply) == reply.kind \in {"metrics", "error"}

\* line 568: if metrics and not metrics.get("error")
Usable(reply) == reply.kind = "metrics"

\* lines 565-574: the scrape returns or raises; metrics.get on a value that is
\* not a dict and CitationMetrics on values that are not numbers raise
ScrapeReturns(i) ==
    /\ postTask[i].pc = "scraping"
    /\ \E reply \in ScrapeReplies :
         LET ref == matched[i].professor
         IN  IF Usable(reply)
             THEN /\ profObj' = [profObj EXCEPT ![ref] = WithMetrics(@, reply)]
                  /\ postTask' = [postTask EXCEPT ![i] =
                                    TaskAt("done", @.find, reply.kind)]
             ELSE IF reply.kind \in {"empty", "error"}
             THEN /\ postTask' = [postTask EXCEPT ![i] =
                                    TaskAt("done", @.find, reply.kind)]
                  /\ UNCHANGED profObj
             ELSE /\ postTask' = [postTask EXCEPT ![i] =
                                    TaskSwallowed(@, @.find, reply.kind)]
                  /\ UNCHANGED profObj
    /\ UNCHANGED <<matched, postOut, PostFrame>>

\* line 576: await asyncio.gather(..., return_exceptions=True)
PostGather ==
    /\ ~postOut.done
    /\ \A i \in 1..Len(postTask) : postTask[i].pc = "done"
    /\ postOut' = [done |-> TRUE, exc |-> NoExc]
    /\ UNCHANGED <<matched, profObj, postTask, PostFrame>>

PostNext ==
    \/ \E i \in 1..Len(postTask) : StartMatch(i)
    \/ \E i \in 1..Len(postTask) : FindReturns(i)
    \/ \E i \in 1..Len(postTask) : ScrapeReturns(i)
    \/ PostGather

SpecPost == PostInit /\ [][PostNext]_vars

(***************************************************************************)
(* app/services/redis.py (SpecStore): get_redis, close_redis and the three *)
(* session operations on one session id.  A call is made of steps: the     *)
(* entry of get_redis, the return of the ping it awaits, and the operation *)
(* sent to Redis or applied to memory_store.  In SpecStore the calls are   *)
(* sequential: a call starts when no other call is in flight.  The Redis   *)
(* server drops a key when its time to live (setex) has passed.            *)
(***************************************************************************)
\* a dict is a sequence of <<key, value>> pairs; a key is a str or an int, a
\* value is a str, a list or a tuple
PyTuple(v) == [t |-> "tuple", v |-> v]
SomeDict(d) == [none |-> FALSE, v |-> d]
Stored(text) == [exists |-> TRUE, text |-> text]

DataCreated == << <<JStr("status"), JStr("created")>> >>
DataWithFiles ==
    << <<JStr("status"), JStr("created")>>, <<JStr("file_ids"), JList(<<"f1">>)>> >>
DataWithTuple == << <<JStr("file_ids"), PyTuple(<<"f1">>)>> >>
DataIntKey == << <<JNum(1), JStr("created")>> >>

SessionValues == {<<>>, DataCreated, DataWithFiles, DataWithTuple, DataIntKey}

\* json.dumps: an int key becomes its decimal string, a tuple becomes an array
DumpsKey(k) == IF k.t = "num" THEN JStr(ToString(k.v)) ELSE k
DumpsValue(v) == IF v.t = "tuple" THEN JList(v.v) ELSE v
json_dumps(data) ==
    [json |-> [i \in 1..Len(data) |-> <<DumpsKey(data[i][1]), DumpsValue(data[i][2])>>]]

\* json.loads of a text json.dumps wrote
json_loads(text) == text.json

\* (mutant) return json.loads(data) if json.loads(data) else None
LoadedIfNonEmpty(data) ==
    IF data.exists /\ json_loads(data.text) # <<>>
    THEN SomeDict(json_loads(data.text)) ELSE PyNone

\* return json.loads(data) if data else None; a JSON text is never empty
LoadedOrNone(data) == IF data.exists THEN SomeDict(json_loads(data.text)) ELSE PyNone

\* get_session_data: if not data: raise HTTPException(status_code=404)
GetSessionCode(result) == IF result.none \/ result.v = <<>> THEN 404 ELSE 200

StoreOps == {"get_redis", "set_session", "get_session", "delete_session"}

MaxAttempts == 2

NoneInFlight == \A c \in Callers : storeCall[c].pc \in {"idle", "done"}

StoreFrame == <<rankVars, pipeVars, enrichVars, filterVars, scholarVars, cacheVars,
                toolVars, discVars, postVars, uploadVars, singleVars, kwVars, lateVars>>

StoreInit ==
    /\ StoreUnused
    /\ UploadUnused
    /\ SingleUnused
    /\ KeywordsUnused
    /\ LateUnused
    /\ PostUnused
    /\ DiscoveryUnused
    /\ filterOut = FilterNotCalled
    /\ ScholarUnused
    /\ CacheUnused
    /\ ToolsUnused
    /\ professors = <<>>
    /\ response = [fails |-> FALSE, text |-> <<>>, payload |-> <<>>]
    /\ rankOut = NotCalled
    /\ PipelineUnused
    /\ EnrichUnused

\* a caller starts an operation; it first awaits get_redis()
BeginCall(c, op, data) ==
    /\ storeCall[c].pc \in {"idle", "done"}
    /\ op = "get_redis" \/ ~storeLog.shut
    /\ storeCall' = [storeCall EXCEPT ![c] =
                       [NoStoreCall EXCEPT !.op = op, !.pc = "get_redis",
                                           !.data = data]]
    /\ UNCHANGED <<redis_client, use_memory_store, memory_store, redisDb, storeLog,
                   StoreFrame>>

\* sequential calls
BeginAlone(c, op, data) == NoneInFlight /\ BeginCall(c, op, data)

\* get_redis, lines 20-26: up to the await of the ping.  from_url assigns the
\* global before the ping is awaited.
GetRedisEnter(c) ==
    /\ storeCall[c].pc = "get_redis"
    /\ IF use_memory_store
       THEN /\ storeCall' = [storeCall EXCEPT ![c].pc = "op", ![c].client = NoClient]
            /\ UNCHANGED <<redis_client, storeLog>>
       ELSE IF redis_client = NoClient
       THEN /\ storeLog.attempts < MaxAttempts
            /\ redis_client' = "client"
            /\ storeLog' = [storeLog EXCEPT !.attempts = @ + 1]
            /\ storeCall' = [storeCall EXCEPT ![c].pc = "ping"]
       ELSE /\ storeCall' = [storeCall EXCEPT ![c].pc = "op",
                                              ![c].client = redis_client]
            /\ UNCHANGED <<redis_client, storeLog>>
    /\ UNCHANGED <<use_memory_store, memory_store, redisDb, StoreFrame>>

\* (mutant) the except block without line 31
PingFailedKeepsClient == [use_memory_store |-> TRUE, redis_client |-> "client"]

\* the except block, lines 28-32
PingFailed == [use_memory_store |-> TRUE, redis_client |-> NoClient]

\* get_redis, lines 26-34: the ping returns, or raises
PingReturns(c) ==
    /\ storeCall[c].pc = "ping"
    /\ \E ok \in BOOLEAN :
         IF ok
         THEN /\ storeCall' = [storeCall EXCEPT ![c].pc = "op",
                                                ![c].client = redis_client]
              /\ UNCHANGED <<redis_client, use_memory_store>>
         ELSE /\ use_memory_store' = PingFailed.use_memory_store
              /\ redis_client' = PingFailed.redis_client
              /\ storeCall' = [storeCall EXCEPT ![c].pc = "op", ![c].client = NoClient]
    /\ UNCHANGED <<memory_store, redisDb, storeLog, StoreFrame>>

Finished(call) == [call EXCEPT !.pc = "done"]

\* a call of get_redis itself returns the client
GetRedisReturn(c) ==
    /\ storeCall[c].pc = "op" /\ storeCall[c].op = "get_redis"
    /\ storeCall' = [storeCall EXCEPT ![c] = Finished(@)]
    /\ UNCHANGED <<redis_client, use_memory_store, memory_store, redisDb, storeLog,
                   StoreFrame>>

\* a command sent to Redis fails
RedisRaises(c) ==
    /\ storeCall[c].pc = "op" /\ storeCall[c].op # "get_redis"
    /\ storeCall[c].client # NoClient
    /\ storeCall' = [storeCall EXCEPT ![c] = [Finished(@) EXCEPT !.exc = "RedisError"]]
    /\ UNCHANGED <<redis_client, use_memory_store, memory_store, redisDb, storeLog,
                   StoreFrame>>

\* set_session, lines 50-54
SetSession(c) ==
    /\ storeCall[c].pc = "op" /\ storeCall[c].op = "set_session"
    /\ IF storeCall[c].client # NoClient
       THEN redisDb' = Stored(json_dumps(storeCall[c].data)) /\ UNCHANGED memory_store
       ELSE memory_store' = Stored(json_dumps(storeCall[c].data)) /\ UNCHANGED redisDb
    /\ storeCall' = [storeCall EXCEPT ![c] = Finished(@)]
    /\ storeLog' = [storeLog EXCEPT
                      !.expected = [exists |-> TRUE, data |-> storeCall[c].data],
                      !.expired = FALSE]
    /\ UNCHANGED <<redis_client, use_memory_store, StoreFrame>>

\* get_session, lines 62-67, and the answer of GET /api/session/{id}
GetSession(c) ==
    /\ storeCall[c].pc = "op" /\ storeCall[c].op = "get_session"
    /\ LET data == IF storeCall[c].client # NoClient THEN redisDb ELSE memory_store
           result == LoadedOrNone(data)
       IN  storeCall' = [storeCall EXCEPT ![c] =
                           [Finished(@) EXCEPT !.result = result,
                                               !.code = GetSessionCode(result)]]
    /\ UNCHANGED <<redis_client, use_memory_store, memory_store, redisDb, storeLog,
                   StoreFrame>>

\* delete_session, lines 75-82
DeleteSession(c) ==
    /\ storeCall[c].pc = "op" /\ storeCall[c].op = "delete_session"
    /\ IF storeCall[c].client # NoClient
       THEN /\ storeCall' = [storeCall EXCEPT ![c] =
                               [Finished(@) EXCEPT !.deleted = redisDb.exists]]
            /\ redisDb' = Absent
            /\ UNCHANGED memory_store
       ELSE /\ storeCall' = [storeCall EXCEPT ![c] =
                               [Finished(@) EXCEPT !.deleted = memory_store.exists]]
            /\ memory_store' = Absent
            /\ UNCHANGED redisDb
    /\ storeLog' = [storeLog EXCEPT !.expected = Absent, !.expired = FALSE]
    /\ UNCHANGED <<redis_client, use_memory_store, StoreFrame>>

\* the key's time to live, session_ttl_hours, has passed at the Redis server
KeyExpires ==
    /\ redisDb.exists
    /\ redisDb' = Absent
    /\ storeLog' = [storeLog EXCEPT !.expired = TRUE]
    /\ UNCHANGED <<redis_client, use_memory_store, memory_store, storeCall, StoreFrame>>

\* close_redis, called when the application shuts down
CloseRedis ==
    /\ NoneInFlight
    /\ ~storeLog.shut
    /\ redis_client' = NoClient
    /\ storeLog' = [storeLog EXCEPT !.shut = TRUE]
    /\ UNCHANGED <<use_memory_store, memory_store, redisDb, storeCall, StoreFrame>>

StoreStep(c) ==
    \/ GetRedisEnter(c)
    \/ PingReturns(c)
    \/ GetRedisReturn(c)
    \/ RedisRaises(c)
    \/ SetSession(c)
    \/ GetSession(c)
    \/ DeleteSession(c)

StoreNext ==
    \/ \E c \in Callers, op \in StoreOps, data \in SessionValues :
          /\ op = "set_session" \/ data = <<>>
          /\ BeginAlone(c, op, data)
    \/ \E c \in Callers : StoreStep(c)
    \/ KeyExpires
    \/ CloseRedis

SpecStore == StoreInit /\ [][StoreNext]_vars

(***************************************************************************)
(* SpecStoreConcurrent: the same operations started by callers that do not *)
(* wait for each other: a request handler and a background run both await  *)
(* get_redis() in one event loop.                                          *)
(***************************************************************************)
ConcurrentValues == {DataCreated}

StoreConcurrentNext ==
    \/ \E c \in Callers, op \in StoreOps, data \in ConcurrentValues \cup {<<>>} :
          /\ op = "set_session" <=> data # <<>>
          /\ BeginCall(c, op, data)
    \/ \E c \in Callers : StoreStep(c)
    \/ KeyExpires
    \/ CloseRedis

SpecStoreConcurrent == StoreInit /\ [][StoreConcurrentNext]_vars

(***************************************************************************)
(* upload_file (app/routes/upload.py), SpecUpload: uploads to one session, *)
(* one after the other.  A request is made of steps: get_session and the   *)
(* checks of the filename, the read of the content and the size check,     *)
(* save_file, and set_session with the answer.  A filename is a sequence   *)
(* of parts, each part after the first starting with a dot where it is an  *)
(* extension.                                                              *)
(***************************************************************************)
MaxUploads == 3

max_upload_size_mb == 10
MAX_SIZE == max_upload_size_mb * 1024 * 1024

ALLOWED_EXTENSIONS == {".pdf", ".docx", ".txt"}

Dotted == {".pdf", ".Pdf", ".docx", ".txt", ".exe", ".hidden"}

\* str.lower on an extension
LowerExt(part) == IF part = ".Pdf" THEN ".pdf" ELSE part

\* Path(filename).suffix: the last dotted part, unless it is the whole name
Suffix(filename) ==
    IF Len(filename) > 1 /\ filename[Len(filename)] \in Dotted
    THEN filename[Len(filename)] ELSE ""

\* (mutant) every extension is accepted
AnyExtension(filename) == TRUE

validate_extension(filename) == LowerExt(Suffix(filename)) \in ALLOWED_EXTENSIONS

FileNames ==
    {<<>>, <<"resume", ".pdf">>, <<"resume", ".Pdf">>, <<"cover", ".docx">>,
     <<"notes", ".txt">>, <<"script", ".exe">>, <<"noextension">>, <<".pdf">>,
     <<".hidden", ".pdf">>, <<"a", ".exe", ".pdf">>, <<"a", ".pdf", ".exe">>}

Files ==
    [filename : FileNames, size : {1}]
    \cup [filename : {<<"resume", ".pdf">>, <<"script", ".exe">>},
          size : {MAX_SIZE, MAX_SIZE + 1}]

\* `not session`: None, or an empty dict
Falsy(session) == ~session.exists \/ DOMAIN session.doc = {}

\* (mutant) session["file_ids"] = [file_id]
OnlyFileId(doc, file_id) == Put(doc, "file_ids", <<file_id>>)

\* lines 41-43
WithFileId(doc, file_id) ==
    Put(doc, "file_ids", Append(Get(doc, "file_ids", <<>>), file_id))

NoUploadInFlight == \A u \in Uploaders : upl[u].pc \in {"idle", "done"}

UploadFrame == <<rankVars, run, req, polled, fetched, enrichVars, filterVars,
                 scholarVars, cacheVars, toolVars, discVars, postVars, storeVars,
                 singleVars, kwVars, lateVars>>

UploadInit ==
    /\ store \in {NoSession, Session(<<>>), Session(CreatedDoc)}
    /\ req = IdleReq /\ run = IdleRun /\ polled = NoAnswer /\ fetched = NoAnswer
    /\ UploadUnused
    /\ StoreUnused
    /\ SingleUnused
    /\ KeywordsUnused
    /\ LateUnused
    /\ PostUnused
    /\ DiscoveryUnused
    /\ filterOut = FilterNotCalled
    /\ ScholarUnused
    /\ CacheUnused
    /\ ToolsUnused
    /\ professors = <<>>
    /\ response = [fails |-> FALSE, text |-> <<>>, payload |-> <<>>]
    /\ rankOut = NotCalled
    /\ EnrichUnused

Answered(u, code) == [upl[u] EXCEPT !.pc = "done", !.code = code]

\* lines 25-35: get_session, the session and filename checks
UploadGet(u, file) ==
    /\ upl[u].pc \in {"idle", "done"}
    /\ Len(blobs) < MaxUploads
    /\ LET session == store
           started == [NoUpload EXCEPT !.file = file, !.session = session]
       IN  upl' = [upl EXCEPT ![u] =
              IF Falsy(session) THEN [started EXCEPT !.pc = "done", !.code = 404]
              ELSE IF file.filename = <<>>
              THEN [started EXCEPT !.pc = "done", !.code = 400]
              ELSE IF ~validate_extension(file.filename)
              THEN [started EXCEPT !.pc = "done", !.code = 400]
              ELSE [started EXCEPT !.pc = "read"]]
    /\ UNCHANGED <<store, blobs, uploaded, UploadFrame>>

\* one upload after the other
UploadAlone(u, file) == NoUploadInFlight /\ UploadGet(u, file)

\* lines 35-37: the content is read, the size check
UploadRead(u) ==
    /\ upl[u].pc = "read"
    /\ upl' = [upl EXCEPT ![u] =
                 IF upl[u].file.size > MAX_SIZE THEN Answered(u, 400)
                 ELSE [@ EXCEPT !.pc = "save"]]
    /\ UNCHANGED <<store, blobs, uploaded, UploadFrame>>

\* line 39: save_file stores the blob under a fresh uuid4, or the bucket fails
UploadSave(u) ==
    /\ upl[u].pc = "save"
    /\ \/ /\ blobs' = Append(blobs, Len(blobs) + 1)
          /\ upl' = [upl EXCEPT ![u].pc = "set", ![u].file_id = Len(blobs) + 1]
       \/ /\ upl' = [upl EXCEPT ![u] = Answered(u, 500)]
          /\ UNCHANGED blobs
    /\ UNCHANGED <<store, uploaded, UploadFrame>>

\* lines 41-46: the id is appended to the session read at line 25
UploadSet(u) ==
    /\ upl[u].pc = "set"
    /\ store' = Session(WithFileId(upl[u].session.doc, upl[u].file_id))
    /\ upl' = [upl EXCEPT ![u] = Answered(u, 200)]
    /\ uploaded' = Append(uploaded, upl[u].file_id)
    /\ UNCHANGED <<blobs, UploadFrame>>

UploadNext ==
    \/ \E u \in Uploaders, file \in Files : UploadAlone(u, file)
    \/ \E u \in Uploaders : UploadRead(u)
    \/ \E u \in Uploaders : UploadSave(u)
    \/ \E u \in Uploaders : UploadSet(u)

SpecUpload == UploadInit /\ [][UploadNext]_vars

(***************************************************************************)
(* enrich_single_professor in detail (SpecSingle)                          *)
(*                                                                         *)
(* The tasks of enrich_professors run enrich_single_professor against the  *)
(* professor cache.  A task is suspended at each await: the cache lookup,  *)
(* search_scholar, get_professor_page, get_publications, the oracle call   *)
(* of extract_research_areas, and the SELECT and the commit of             *)
(* cache_professor.  Rows left by earlier runs are in the cache at the     *)
(* start, among them the two rows of one key that two racing               *)
(* cache_professor calls of earlier runs leave behind.  Time is counted in *)
(* days and may pass while the tasks run.                                  *)
(***************************************************************************)
\* the tasks are the callers of cache_professor
SingleTasks == Writers

SingleUniversity == "mit.edu"

SingleCandidates ==
    {[name |-> "", profile_url |-> NoUrl],
     [name |-> "ann", profile_url |-> NoUrl],
     [name |-> "ann", profile_url |-> "mit.edu/ann"],
     [name |-> "bob", profile_url |-> "mit.edu/bob"]}

\* what get_professor_page gives the caller: a dict of page details, a dict
\* whose research_areas is one comma separated string, {} (the gateway's
\* answer to every failure), a dict whose title is not a string, a JSON array,
\* JSON null, or an exception
PageReplies == {"dict", "areas_str", "empty", "bad_title", "list", "null", "raises"}

IsDict(reply) == reply \in {"dict", "areas_str", "empty", "bad_title"}

NoContent == [scholar_id |-> "unset", publications |-> 0, has_metrics |-> FALSE,
              research_areas |-> "unset"]
IdleSingle == [scholar |-> "unset", page |-> "unset", built |-> NoContent,
               existing |-> 0, stamp |-> 0, hit |-> FALSE, exc |-> NoExc]

\* rows of earlier runs: none, one stale, one fresh, or two fresh of one key
StaleRow(id, key) == [id |-> id, key |-> key, data |-> id, updated_at |-> 0]
FreshRow(id, key) == [id |-> id, key |-> key, data |-> id, updated_at |-> 1]
EarlierRows ==
    LET ann == <<"ann", SingleUniversity>>
    IN  {{}, {StaleRow(11, ann)}, {FreshRow(11, ann)},
         {FreshRow(11, ann), FreshRow(12, ann)}}

KeyOf(i) == <<faculty_data[i].name, SingleUniversity>>

\* _cache_to_profile(cached): id and fields of the stored record
CacheToProfile(row) ==
    [id |-> [src |-> "cache", n |-> row.id], name |-> row.key[1], data |-> row.data]

\* the ProfessorProfile task i builds: id=uuid4(), its fields in single[i].built
BuiltProfile(i) ==
    [id |-> [src |-> "uuid4", n |-> i], name |-> faculty_data[i].name, data |-> i]

\* lines 413-427: research_areas = extra_data.get("research_areas") or [];
\* a string is split at commas; ProfessorProfile(..., publications=[]) with
\* scholar_id and citation_metrics left at their default None
MinimalContent(page) ==
    [scholar_id |-> "none", publications |-> 0, has_metrics |-> FALSE,
     research_areas |-> IF page \in {"dict", "areas_str"} THEN "from_page"
                        ELSE "empty"]

\* lines 431-471: scholar_id = scholar.get("author_id"), the publications,
\* the placeholder CitationMetrics(h_index=0, total_citations=0)
FullContent(scholar, pubs, areas) ==
    [scholar_id |-> IF scholar = "with_id" THEN "author_id" ELSE "none",
     publications |-> pubs, has_metrics |-> TRUE, research_areas |-> areas]

Called(i, callee) == calls \cup {<<i, callee>>}

SingleFrame == <<rankVars, pipeVars, crowd, filterVars, scholarVars, toolVars,
                 discVars, postVars, storeVars, uploadVars, kwVars, lateVars>>
SingleCacheRest == <<writer, writes, committed, lookup>>

SingleInit ==
    /\ faculty_data \in SeqsUpTo(SingleCandidates, Cardinality(SingleTasks))
    /\ task = [i \in 1..Len(faculty_data) |-> [pc |-> "created", result |-> Pending]]
    /\ single = [i \in 1..Len(faculty_data) |-> IdleSingle]
    /\ calls = {}
    /\ crowd = NoCrowd
    /\ semValue = SemaphoreLimit
    /\ enrichOut = EnrichNotStarted
    /\ cache \in EarlierRows
    /\ now = CACHE_TTL_DAYS
    /\ writer = [w \in Writers |-> IdleWriter]
    /\ writes = 0 /\ committed = [k \in CacheKeys |-> 0] /\ lookup = NoLookup
    /\ filterOut = FilterNotCalled
    /\ ScholarUnused
    /\ ToolsUnused
    /\ DiscoveryUnused
    /\ PostUnused
    /\ StoreUnused
    /\ UploadUnused
    /\ KeywordsUnused
    /\ LateUnused
    /\ professors = <<>>
    /\ response = [fails |-> FALSE, text |-> <<>>, payload |-> <<>>]
    /\ rankOut = NotCalled
    /\ PipelineUnused

\* the task goes on to its next await
GoOn(i, pc) ==
    /\ task' = [task EXCEPT ![i].pc = pc]
    /\ UNCHANGED semValue

\* lines 374-376 under `async with semaphore`
SingleEnter(i) == TaskEnter(i)

\* lines 378-380: cached = await get_cached_professor(name, university);
\* if cached: return cached.  The query raises when the database fails or
\* when more than one fresh row has the key.
SingleCacheGet(i) ==
    /\ task[i].pc = "cache_get"
    /\ calls' = Called(i, "get_cached_professor")
    /\ LET got == get_cached_professor(cache, KeyOf(i), now)
       IN  \/ /\ got.exc # NoExc
              /\ Leave(i, RaisedException)
              /\ single' = [single EXCEPT ![i].exc = got.exc]
           \/ /\ got.exc = NoExc /\ got.found
              /\ Leave(i, ReturnedProfile(CacheToProfile(got.row)))
              /\ single' = [single EXCEPT ![i].hit = TRUE]
           \/ /\ got.exc = NoExc /\ ~got.found
              /\ GoOn(i, "search")
              /\ UNCHANGED single
           \/ /\ Leave(i, RaisedException)
              /\ single' = [single EXCEPT ![i].exc = "DatabaseError"]
    /\ UNCHANGED <<faculty_data, enrichOut, cache, now, SingleCacheRest, SingleFrame>>

\* lines 383-407 and 431-436: search_scholar and the choice of `scholar`
\* (no candidate, or one with or without an author_id); then the branch
\* taken up to its next await
SingleSearch(i) ==
    /\ task[i].pc = "search"
    /\ calls' = Called(i, "search_scholar")
    /\ \E scholar \in {"none", "with_id", "without_id"} :
         IF scholar = "none"
         THEN IF faculty_data[i].profile_url = NoUrl
              THEN /\ single' = [single EXCEPT ![i].scholar = scholar,
                                               ![i].built = MinimalContent("unset")]
                   /\ GoOn(i, "cache_select")
              ELSE /\ single' = [single EXCEPT ![i].scholar = scholar]
                   /\ GoOn(i, "page")
         ELSE IF scholar = "with_id"
              THEN /\ single' = [single EXCEPT ![i].scholar = scholar]
                   /\ GoOn(i, "pubs")
              ELSE /\ single' = [single EXCEPT
                                   ![i].scholar = scholar,
                                   ![i].built = FullContent(scholar, 0, "empty")]
                   /\ GoOn(i, "cache_select")
    /\ UNCHANGED <<faculty_data, enrichOut, cacheVars, SingleFrame>>

\* (mutant) the profile page's answer is used only when it is a dict
PageTolerant(reply) ==
    [raised |-> FALSE, exc |-> NoExc, content |-> MinimalContent(reply)]

\* lines 406-427 after get_professor_page answered: an exception of the call
\* is swallowed and extra_data stays {}; extra_data.get(...) on a value that
\* is not a dict raises AttributeError (line 413 is outside the try), and a
\* title that is not a string fails the validation of ProfessorProfile
MinimalFromPage(reply) ==
    IF reply = "raises"
    THEN [raised |-> FALSE, exc |-> NoExc, content |-> MinimalContent("empty")]
    ELSE IF ~IsDict(reply)
    THEN [raised |-> TRUE, exc |-> "AttributeError", content |-> NoContent]
    ELSE IF reply = "bad_title"
    THEN [raised |-> TRUE, exc |-> "ValidationError", content |-> NoContent]
    ELSE [raised |-> FALSE, exc |-> NoExc, content |-> MinimalContent(reply)]

\* lines 408-427
SinglePage(i) ==
    /\ task[i].pc = "page"
    /\ calls' = Called(i, "get_professor_page")
    /\ \E reply \in PageReplies :
         LET got == MinimalFromPage(reply)
         IN  IF got.raised
             THEN /\ Leave(i, RaisedException)
                  /\ single' = [single EXCEPT ![i].page = reply,
                                              ![i].exc = got.exc]
             ELSE /\ GoOn(i, "cache_select")
                  /\ single' = [single EXCEPT ![i].page = reply,
                                              ![i].built = got.content]
    /\ UNCHANGED <<faculty_data, enrichOut, cacheVars, SingleFrame>>

\* lines 436-457: get_publications answers with a list; an entry that is
\* not a dict or fails Publication's validation raises; without publications
\* extract_research_areas returns [] at once
SinglePubs(i) ==
    /\ task[i].pc = "pubs"
    /\ calls' = Called(i, "get_publications")
    /\ \/ /\ Leave(i, RaisedException)
          /\ single' = [single EXCEPT ![i].exc = "AttributeError"]
       \/ /\ GoOn(i, "cache_select")
          /\ single' = [single EXCEPT
                          ![i].built = FullContent(single[i].scholar, 0, "empty")]
       \/ /\ GoOn(i, "areas")
          /\ UNCHANGED single
    /\ UNCHANGED <<faculty_data, enrichOut, cacheVars, SingleFrame>>

\* line 457, extract_research_areas with publications: generate_text
\* answers, or raises, and nothing catches that
SingleAreas(i) ==
    /\ task[i].pc = "areas"
    /\ calls' = Called(i, "generate_text")
    /\ \/ /\ Leave(i, RaisedException)
          /\ single' = [single EXCEPT ![i].exc = "OracleError"]
       \/ \E areas \in {"empty", "from_oracle"} :
            /\ GoOn(i, "cache_select")
            /\ single' = [single EXCEPT
                            ![i].built = FullContent(single[i].scholar, 1, areas)]
    /\ UNCHANGED <<faculty_data, enrichOut, cacheVars, SingleFrame>>

\* cache_professor, lines 47-63, called at lines 428 and 473
SingleCacheSelect(i) ==
    /\ task[i].pc = "cache_select"
    /\ calls' = Called(i, "cache_professor")
    /\ LET existing == ScalarOneOrNone(RowsOfKey(cache, KeyOf(i)))
       IN  IF existing.exc # NoExc
           THEN /\ Leave(i, RaisedException)
                /\ single' = [single EXCEPT ![i].exc = existing.exc]
           ELSE /\ GoOn(i, "cache_commit")
                /\ single' = [single EXCEPT ![i].existing = existing.row.id,
                                            ![i].stamp = now]
    /\ UNCHANGED <<faculty_data, enrichOut, cache, now, SingleCacheRest, SingleFrame>>

\* (mutant) the profile is returned without being stored
CommitSkipped(rows, key, existing, n, stamp, t) == rows

\* cache_professor, lines 55-79: the row found is updated, else one is added
CommitProfile(rows, key, existing, n, stamp, t) ==
    IF existing # 0 THEN UpdateRow(rows, existing, n, stamp)
    ELSE InsertRow(rows, key, n, t)

\* await session.commit() of cache_professor, then `return prof`; a failed
\* commit raises and leaves the table as it was
SingleCacheCommit(i) ==
    /\ task[i].pc = "cache_commit"
    /\ \/ /\ cache' = CommitProfile(cache, KeyOf(i), single[i].existing, i,
                                    single[i].stamp, now)
          /\ Leave(i, ReturnedProfile(BuiltProfile(i)))
          /\ UNCHANGED single
       \/ /\ Leave(i, RaisedException)
          /\ single' = [single EXCEPT ![i].exc = "DatabaseError"]
          /\ UNCHANGED cache
    /\ UNCHANGED <<faculty_data, enrichOut, calls, now, SingleCacheRest, SingleFrame>>

\* a day passes
SingleTick ==
    /\ now < MaxClock
    /\ now' = now + 1
    /\ UNCHANGED <<enrichVars, cache, SingleCacheRest, singleVars, rankVars,
                   pipeVars, filterVars, scholarVars, toolVars, discVars,
                   postVars, storeVars, uploadVars, kwVars, lateVars>>

SingleNext ==
    \/ \E i \in 1..Len(task) : SingleEnter(i)
    \/ \E i \in 1..Len(task) : SingleCacheGet(i)
    \/ \E i \in 1..Len(task) : SingleSearch(i)
    \/ \E i \in 1..Len(task) : SinglePage(i)
    \/ \E i \in 1..Len(task) : SinglePubs(i)
    \/ \E i \in 1..Len(task) : SingleAreas(i)
    \/ \E i \in 1..Len(task) : SingleCacheSelect(i)
    \/ \E i \in 1..Len(task) : SingleCacheCommit(i)
    \/ SingleTick
    \/ EnrichReturn

SpecSingle == SingleInit /\ [][SingleNext]_vars

(***************************************************************************)
(* Domain keywords of enrich_professors (SpecKeywords)                     *)
(*                                                                         *)
(* The university is given as a URL or as a bare hostname.  Here a host    *)
(* is a sequence of labels with "." tokens between them, so that the       *)
(* split at "." and the test of each label are computed as the code        *)
(* computes them.                                                          *)
(***************************************************************************)
MaxLabels == 3

HostLabels == {"www", "MIT", "mit", "edu", "cs", "depts"}

\* ".".join(labels)
RECURSIVE Dots(_)
Dots(labels) ==
    IF Len(labels) <= 1 THEN labels
    ELSE <<Head(labels), ".">> \o Dots(Tail(labels))

KeywordUniversities ==
    {scheme \o Dots(labels) \o path :
        scheme \in {<<>>, <<"https://">>, <<"http://">>},
        labels \in SeqsUpTo(HostLabels, MaxLabels) \ {<<>>},
        path \in {<<>>, <<"/", "faculty">>}}
    \cup {<<>>, <<"https://", "[", "mit", ".", "edu">>}

\* str.replace("www.", ""): every "www" token followed by "." goes, with it
RECURSIVE ReplaceWww(_)
ReplaceWww(tokens) ==
    IF tokens = <<>> THEN <<>>
    ELSE IF Len(tokens) >= 2 /\ tokens[1] = "www" /\ tokens[2] = "."
    THEN ReplaceWww(SubSeq(tokens, 3, Len(tokens)))
    ELSE <<Head(tokens)>> \o ReplaceWww(Tail(tokens))

\* str.split("/")[0]
BeforeSlash(tokens) == SubSeq(tokens, 1, FirstOf(tokens, 1, {"/"}) - 1)

\* _extract_domain: urlparse(url).netloc.replace("www.", "").split("/")[0],
\* "" when urlparse raises
extract_domain(url) ==
    LET parsed == UrlParse(url)
    IN  IF parsed.raises THEN <<>>
        ELSE BeforeSlash(ReplaceWww(parsed.netloc))

\* str.lower() on a label
LowerLabel(t) == IF t = "MIT" THEN "mit" ELSE t

\* domain.lower().split("."): "" splits into one empty part
SplitDots(domain) ==
    IF domain = <<>> THEN <<"">>
    ELSE LET labels == SelectSeq(domain, LAMBDA t : t # ".")
         IN  [k \in 1..Len(labels) |-> LowerLabel(labels[k])]

ignore == {"www", "ac", "za", "edu", "uk", "us", "com", "org", "net", "depts", "dept"}

MinKeywordLen == 2

\* [p for p in parts if p not in ignore and len(p) > 2]
KeywordsOfParts(parts) ==
    SelectSeq(parts, LAMBDA p : p \notin ignore /\ Len(p) > MinKeywordLen)

\* enrich_professors, lines 481-496
DomainKeywords(university) == KeywordsOfParts(SplitDots(extract_domain(university)))

KeywordsNotCalled == [called |-> FALSE, domain |-> <<>>, value |-> <<>>]

KeywordFrame == <<rankVars, pipeVars, enrichVars, filterVars, scholarVars, cacheVars,
                  toolVars, discVars, postVars, storeVars, uploadVars, singleVars,
                  lateVars>>

KeywordInit ==
    /\ kwIn \in KeywordUniversities
    /\ kwOut = KeywordsNotCalled
    /\ LateUnused
    /\ StoreUnused
    /\ UploadUnused
    /\ SingleUnused
    /\ PostUnused
    /\ DiscoveryUnused
    /\ filterOut = FilterNotCalled
    /\ ScholarUnused
    /\ CacheUnused
    /\ ToolsUnused
    /\ professors = <<>>
    /\ response = [fails |-> FALSE, text |-> <<>>, payload |-> <<>>]
    /\ rankOut = NotCalled
    /\ PipelineUnused
    /\ EnrichUnused

\* enrich_professors(faculty_data, university) up to the semaphore
DeriveKeywords ==
    /\ ~kwOut.called
    /\ kwOut' = [called |-> TRUE, domain |-> extract_domain(kwIn),
                 value |-> DomainKeywords(kwIn)]
    /\ UNCHANGED <<kwIn, KeywordFrame>>

KeywordNext == DeriveKeywords

SpecKeywords == KeywordInit /\ [][KeywordNext]_vars

(***************************************************************************)
(* Completion order of the fan-outs (SpecFanOut)                           *)
(*                                                                         *)
(* The three gathers of fetch_faculty and enrich_professors with the       *)
(* answer of every call fixed beforehand: the web search of each           *)
(* discovery branch, the faculty list of each URL, the outcome of each     *)
(* candidate's enrichment.  The tasks of a gather complete in any order;   *)
(* `finished` is that order.                                               *)
(***************************************************************************)
FanInterests == SubSeq(InterestPool, 1, DiscoveryLimit)
FanUrls == {DirectoryUrl, OtherUrl}
FanNames == {"ann", "bob", "Ann"}

BranchDone(exc, urls) == [state |-> "done", exc |-> exc, urls |-> urls, failed |-> FALSE]

\* what one discover_faculty_url call ends with
BranchAnswers ==
    {BranchDone(NoExc, <<DirectoryUrl>>), BranchDone(NoExc, <<OtherUrl, DirectoryUrl>>),
     BranchDone("ValueError", <<>>)}

\* what university_client.search_faculty answers for one URL
FanFacultyAnswers ==
    {RepliedOther("raises"),
     RepliedList(<<FacultyEntry(JStr("ann"), 1), FacultyEntry(JStr("bob"), 2)>>),
     RepliedList(<<FacultyEntry(JStr("Ann"), 4), FacultyEntry(JStr("bob"), 8),
                   FacultyEntry(JStr("ann"), 9)>>)}

FanInputs ==
    [web : [1..DiscoveryLimit -> BranchAnswers],
     faculty : [FanUrls -> FanFacultyAnswers],
     enrich : [FanNames -> {"profile", "exception"}]]

\* (mutant) the results in the order in which the tasks completed
GatherAsCompleted(results, finished) == [k \in 1..Len(finished) |-> results[finished[k]]]

\* asyncio.gather(*tasks, return_exceptions=True): the list of results is in
\* the order of the tasks passed, whatever the order of completion
GatherInTaskOrder(results, finished) == results

\* the result of search_one for pair j
SearchResults(pairs) ==
    [j \in 1..Len(pairs) |-> search_one(fanIn.faculty[pairs[j].url])]

\* the result of enrich_with_limit for candidate k
EnrichResults(faculty) ==
    [k \in 1..Len(faculty) |->
        IF fanIn.enrich[faculty[k].name.v] = "profile"
        THEN ReturnedProfile([id |-> [src |-> "uuid4", n |-> k],
                              name |-> faculty[k].name.v])
        ELSE RaisedException]

\* number of tasks the gather of the current stage waits for
FanTasks ==
    IF fan.stage = "discover" THEN DiscoveryLimit
    ELSE IF fan.stage = "search" THEN Len(fan.search_pairs)
    ELSE IF fan.stage = "enrich" THEN Len(fan.unique_faculty)
    ELSE 0

FanFrame == <<rankVars, pipeVars, enrichVars, filterVars, scholarVars, cacheVars,
              toolVars, discVars, postVars, storeVars, uploadVars, singleVars,
              kwVars, sessVars>>

FanInit ==
    /\ fanIn \in FanInputs
    /\ fan = [FanNotStarted EXCEPT !.stage = "discover"]
    /\ SessUnused
    /\ StoreUnused
    /\ UploadUnused
    /\ SingleUnused
    /\ KeywordsUnused
    /\ PostUnused
    /\ DiscoveryUnused
    /\ filterOut = FilterNotCalled
    /\ ScholarUnused
    /\ CacheUnused
    /\ ToolsUnused
    /\ professors = <<>>
    /\ response = [fails |-> FALSE, text |-> <<>>, payload |-> <<>>]
    /\ rankOut = NotCalled
    /\ PipelineUnused
    /\ EnrichUnused

Finishes(stage, i) ==
    /\ fan.stage = stage
    /\ i \in 1..FanTasks
    /\ i \notin Range(fan.finished)
    /\ fan' = [fan EXCEPT !.finished = Append(@, i)]
    /\ UNCHANGED <<fanIn, FanFrame>>

Joined(stage) == fan.stage = stage /\ Len(fan.finished) = FanTasks

\* one of the discover_faculty_url tasks of line 264 completes
FanDiscoverFinishes(i) == Finishes("discover", i)

\* lines 268-280: the gather returns and the (url, interest) pairs are built
FanDiscoveryJoin ==
    /\ Joined("discover")
    /\ LET discovery_results == GatherInTaskOrder(fanIn.web, fan.finished)
       IN  fan' = [fan EXCEPT
                     !.stage = "search",
                     !.order = Append(@, fan.finished),
                     !.finished = <<>>,
                     !.search_pairs =
                         UniqueByUrl(AllPairs(discovery_results, FanInterests, 1), {})]
    /\ UNCHANGED <<fanIn, FanFrame>>

\* one of the search_one tasks of line 297 completes
FanSearchFinishes(j) == Finishes("search", j)

\* lines 298-314: the gather returns, the lists are merged and deduplicated
FanSearchJoin ==
    /\ Joined("search")
    /\ LET fetch_results ==
               GatherInTaskOrder(SearchResults(fan.search_pairs), fan.finished)
       IN  fan' = [fan EXCEPT
                     !.stage = "enrich",
                     !.order = Append(@, fan.finished),
                     !.finished = <<>>,
                     !.unique_faculty =
                         DedupByName(Extended(fetch_results, 1), {}).value]
    /\ UNCHANGED <<fanIn, FanFrame>>

\* one of the enrich_with_limit tasks of line 507 completes
FanEnrichFinishes(k) == Finishes("enrich", k)

\* lines 508-515: the gather returns and the profiles are collected
FanEnrichJoin ==
    /\ Joined("enrich")
    /\ LET results == GatherInTaskOrder(EnrichResults(fan.unique_faculty), fan.finished)
       IN  fan' = [fan EXCEPT
                     !.stage = "done",
                     !.order = Append(@, fan.finished),
                     !.finished = <<>>,
                     !.professors = ProfilesOf(results)]
    /\ UNCHANGED <<fanIn, FanFrame>>

FanNext ==
    \/ \E i \in 1..DiscoveryLimit : FanDiscoverFinishes(i)
    \/ FanDiscoveryJoin
    \/ \E j \in 1..Len(fan.search_pairs) : FanSearchFinishes(j)
    \/ FanSearchJoin
    \/ \E k \in 1..Len(fan.unique_faculty) : FanEnrichFinishes(k)
    \/ FanEnrichJoin

SpecFanOut == FanInit /\ [][FanNext]_vars

(***************************************************************************)
(* SpecSession: the requests of several clients on one session, all in one *)
(* event loop.  Every get_session and set_session awaits the Redis client, *)
(* so a handler that reads the session, changes the copy and writes it     *)
(* back can be overtaken between its read and its write.  Two start_match  *)
(* requests with their background runs, two uploads, one DELETE and the    *)
(* results poll.  The match_id of request r is r (uuid4: fresh), and the   *)
(* matches run r computes are tagged with r.                               *)
(***************************************************************************)
ResultsOf(r) == <<[run |-> r]>>

SessionFile == [filename |-> <<"resume", ".pdf">>, size |-> 1]

\* stages whose work can raise before the next milestone is reported:
\* parse_student_documents, fetch_faculty, filter_faculty_by_relevance,
\* generate_matches
RaisingBefore == {2, 3, 4, 6}

RunError == Message(1)

\* What the clients of the session send: two start_match requests and the
\* results poll; one start_match and two uploads; one start_match, one upload
\* and the DELETE.
Workloads ==
    { [starts |-> 2, uploads |-> 0, delete |-> FALSE, poll |-> TRUE],
      [starts |-> 1, uploads |-> 2, delete |-> FALSE, poll |-> FALSE],
      [starts |-> 1, uploads |-> 1, delete |-> TRUE, poll |-> FALSE] }

SessionFrame == <<rankVars, run, req, polled, fetched, enrichVars, filterVars,
                  scholarVars, cacheVars, toolVars, discVars, postVars, storeVars,
                  singleVars, kwVars, fanVars>>

SessionInit ==
    /\ store = Session(CreatedDoc)
    /\ req = IdleReq /\ run = IdleRun /\ polled = NoAnswer /\ fetched = NoAnswer
    /\ UploadUnused
    /\ starts = [r \in Requests |-> NotStarted]
    /\ runs = [r \in Requests |-> NoRun]
    /\ gone = [pc |-> "idle", code |-> 0]
    /\ served = NotServed
    /\ \E load \in Workloads : sessLog = [load |-> load, reset |-> 0]
    /\ FanUnused
    /\ StoreUnused
    /\ SingleUnused
    /\ KeywordsUnused
    /\ PostUnused
    /\ DiscoveryUnused
    /\ filterOut = FilterNotCalled
    /\ ScholarUnused
    /\ CacheUnused
    /\ ToolsUnused
    /\ professors = <<>>
    /\ response = [fails |-> FALSE, text |-> <<>>, payload |-> <<>>]
    /\ rankOut = NotCalled
    /\ EnrichUnused

\* start_match, lines 59-61: session = await get_session(...)
SessionStartGet(r) ==
    /\ starts[r].pc = "idle" /\ r <= sessLog.load.starts
    /\ \A q \in Requests : q < r => starts[q].pc # "idle"
    /\ starts' = [starts EXCEPT ![r] =
                    IF Falsy(store) THEN [@ EXCEPT !.pc = "done", !.code = 404]
                    ELSE [@ EXCEPT !.pc = "set", !.local = store]]
    /\ UNCHANGED <<store, runs, gone, served, sessLog, uploadVars, SessionFrame>>

\* start_match, lines 63-78: the copy is reset and written, the run queued
SessionStartSet(r) ==
    /\ starts[r].pc = "set"
    /\ store' = Session(StartedDoc(starts[r].local.doc, r))
    /\ starts' = [starts EXCEPT ![r].pc = "done", ![r].code = 200]
    /\ runs' = [runs EXCEPT ![r] = [NoRun EXCEPT !.pc = "update_get", !.stage = 1]]
    /\ sessLog' = [sessLog EXCEPT !.reset = r]
    /\ UNCHANGED <<gone, served, uploadVars, SessionFrame>>

AfterMilestone(r) ==
    IF runs[r].stage = LastStage THEN [runs[r] EXCEPT !.pc = "final_get"]
    ELSE [runs[r] EXCEPT !.pc = "update_get", !.stage = @ + 1]

\* update_progress, line 31: session = await get_session(session_id)
SessionUpdateGet(r) ==
    /\ runs[r].pc = "update_get"
    /\ runs' = [runs EXCEPT ![r] =
                  IF Falsy(store) THEN [AfterMilestone(r) EXCEPT !.local = store]
                  ELSE [@ EXCEPT !.pc = "update_set", !.local = store]]
    /\ UNCHANGED <<store, starts, gone, served, sessLog, uploadVars, SessionFrame>>

\* update_progress, lines 33-35: the copy is changed and written
SessionUpdateSet(r) ==
    /\ runs[r].pc = "update_set"
    /\ store' = Session(ProgressDoc(runs[r].local.doc, runs[r].stage))
    /\ runs' = [runs EXCEPT ![r] = AfterMilestone(r)]
    /\ UNCHANGED <<starts, gone, served, sessLog, uploadVars, SessionFrame>>

\* a stage of run_matching raises; run_matching_task catches it
SessionRunRaises(r) ==
    /\ runs[r].pc = "update_get" /\ runs[r].stage \in RaisingBefore
    /\ runs' = [runs EXCEPT ![r].pc = "except_get"]
    /\ UNCHANGED <<store, starts, gone, served, sessLog, uploadVars, SessionFrame>>

\* run_matching, line 75
SessionFinalGet(r) ==
    /\ runs[r].pc = "final_get"
    /\ runs' = [runs EXCEPT ![r].local = store,
                            ![r].pc = IF Falsy(store) THEN "done" ELSE "final_set"]
    /\ UNCHANGED <<store, starts, gone, served, sessLog, uploadVars, SessionFrame>>

\* run_matching, lines 76-86
SessionFinalSet(r) ==
    /\ runs[r].pc = "final_set"
    /\ store' = Session(CompletedDoc(runs[r].local.doc, ResultsOf(r)))
    /\ runs' = [runs EXCEPT ![r].pc = "done"]
    /\ UNCHANGED <<starts, gone, served, sessLog, uploadVars, SessionFrame>>

\* run_matching_task, line 49
SessionExceptGet(r) ==
    /\ runs[r].pc = "except_get"
    /\ runs' = [runs EXCEPT ![r].local = store,
                            ![r].pc = IF Falsy(store) THEN "done" ELSE "except_set"]
    /\ UNCHANGED <<store, starts, gone, served, sessLog, uploadVars, SessionFrame>>

\* run_matching_task, lines 50-53
SessionExceptSet(r) ==
    /\ runs[r].pc = "except_set"
    /\ store' = Session(FailedDoc(runs[r].local.doc, RunError))
    /\ runs' = [runs EXCEPT ![r].pc = "done"]
    /\ UNCHANGED <<starts, gone, served, sessLog, uploadVars, SessionFrame>>

\* upload_file: each client uploads one file; the steps are those of
\* SpecUpload, without their turn-taking
SessionUploadGet(u) ==
    /\ upl[u].pc = "idle" /\ u <= sessLog.load.uploads
    /\ \A v \in Uploaders : v < u => upl[v].pc # "idle"
    /\ UploadGet(u, SessionFile)

\* delete_session_data: delete_session removes the key in one command
DeleteSessionData ==
    /\ gone.pc = "idle" /\ sessLog.load.delete
    /\ gone' = [pc |-> "done", code |-> IF store.exists THEN 200 ELSE 404]
    /\ store' = NoSession
    /\ UNCHANGED <<starts, runs, served, sessLog, uploadVars, SessionFrame>>

ResultsAnswer(match_id) ==
    IF Falsy(store) \/ Get(store.doc, "match_id", 0) # match_id
    THEN [match_id |-> match_id, code |-> 404, results |-> <<>>]
    ELSE IF Get(store.doc, "match_status", "unknown") # "completed"
    THEN [match_id |-> match_id, code |-> 400, results |-> <<>>]
    ELSE [match_id |-> match_id, code |-> 200,
          results |-> Get(store.doc, "match_results", <<>>)]

\* get_match_results with a match_id a start_match has answered
SessionGetResults(r) ==
    /\ starts[r].code = 200 /\ sessLog.load.poll
    /\ served' = ResultsAnswer(r)
    /\ UNCHANGED <<store, starts, runs, gone, sessLog, uploadVars, SessionFrame>>

SessionNext ==
    \/ \E r \in Requests : SessionStartGet(r)
    \/ \E r \in Requests : SessionStartSet(r)
    \/ \E r \in Requests : SessionUpdateGet(r)
    \/ \E r \in Requests : SessionUpdateSet(r)
    \/ \E r \in Requests : SessionRunRaises(r)
    \/ \E r \in Requests : SessionFinalGet(r)
    \/ \E r \in Requests : SessionFinalSet(r)
    \/ \E r \in Requests : SessionExceptGet(r)
    \/ \E r \in Requests : SessionExceptSet(r)
    \/ \E u \in Uploaders : SessionUploadGet(u)
    \/ \E u \in Uploaders : UploadRead(u)
    \/ \E u \in Uploaders : UploadSave(u)
    \/ \E u \in Uploaders : UploadSet(u)
    \/ DeleteSessionData
    \/ \E r \in Requests : SessionGetResults(r)

SpecSession == SessionInit /\ [][SessionNext]_vars

(***************************************************************************)
(* Properties of enrich_professors                                         *)
(***************************************************************************)
\* C5: at every moment at most 20 candidates are inside
\* enrich_single_professor, and every candidate at a cache or tool call of
\* the stage holds one of the 20 slots (checked under SpecAdmit).
C5_AtMostTwentyInside ==
    /\ Holding(crowd) <= 20
    /\ semValue >= 0
    /\ Holding(crowd) = 20 - semValue

\* C5 witness: all 20 slots are taken, a candidate is queued and another has
\* already finished (a slot has been handed over).
C5_Witness ==
    /\ Holding(crowd) = 20
    /\ crowd.waiting > 0
    /\ crowd.finished > 0

\* C6: enrich_professors never raises because of one candidate; its output is
\* exactly the profiles of the candidates whose enrichment returned a
\* profile, in input order, and every sibling has run to completion
\* (checked under SpecEnrich).
C6_FailuresAreDropped ==
    enrichOut.done =>
      /\ ~enrichOut.raised
      /\ \A i \in 1..Len(task) : task[i].pc = "done"
      /\ LET ok == {i \in 1..Len(task) : task[i].result.kind = "profile"}
             rank(i) == Cardinality({j \in ok : j <= i})
         IN  /\ Len(enrichOut.value) = Cardinality(ok)
             /\ \A i \in ok :
                  /\ enrichOut.value[rank(i)] = task[i].result.profile
                  /\ enrichOut.value[rank(i)].name = faculty_data[i].name

\* C6 witness: the first of three candidates raised, the second returned no
\* profile, and the stage returned the third one's profile.
C6_Witness ==
    /\ enrichOut.done
    /\ Len(task) = 3
    /\ task[1].result.kind = "exception"
    /\ task[2].result.kind = "none"
    /\ Len(enrichOut.value) = 1
    /\ enrichOut.value[1].name = faculty_data[3].name

(***************************************************************************)
(* Properties of the run (checked under Spec)                              *)
(***************************************************************************)
\* The progress values of the claim, in the claimed order.
ClaimedProgress == <<0, 5, 15, 25, 30, 70, 90, 95, 100>>

StoredProgress(st) == Get(st.doc, "match_progress", 0)

\* C1: during one run, with pollers as the only other accessors, the
\* match_progress values a poller reads never decrease; the stored value
\* starts at 0 (start_match) and only moves through 5, 15, 25, 30, 70, 90,
\* 95, 100 in that order.
C1_MonotonicProgress ==
    [][ /\ (polled.code = 200 /\ polled'.code = 200)
            => polled'.progress >= polled.progress
        /\ polled'.code = 200 => polled'.progress \in Range(ClaimedProgress)
        /\ (req.pc = "set" /\ req'.pc = "done") => StoredProgress(store') = 0
        /\ (store.exists /\ store'.exists /\ "match_progress" \in DOMAIN store.doc
            /\ StoredProgress(store') # StoredProgress(store))
            => \E k \in 1..(Len(ClaimedProgress) - 1) :
                 /\ StoredProgress(store) = ClaimedProgress[k]
                 /\ StoredProgress(store') = ClaimedProgress[k + 1]
      ]_vars

\* C1 witness: a poller still holds 70 while the run has already reported 90.
C1_Witness ==
    /\ polled.code = 200 /\ polled.progress = 70
    /\ store.exists /\ StoredProgress(store) = 90

\* C2: status 'completed' comes with progress 100 and the results of the run,
\* in the store and in every answer a poller gets.
C2_CompletedIsWhole ==
    /\ (store.exists /\ Get(store.doc, "match_status", "unknown") = "completed")
         => /\ StoredProgress(store) = 100
            /\ "match_results" \in DOMAIN store.doc
            /\ store.doc.match_results = run.matches
            /\ run.matches = rankOut.value
    /\ (polled.code = 200 /\ polled.status = "completed") => polled.progress = 100
    /\ fetched.code = 200 => fetched.results = run.matches

\* C2 witness: both pollers have seen the completed run with its results.
C2_Witness ==
    /\ polled.code = 200 /\ polled.status = "completed"
    /\ fetched.code = 200 /\ Len(fetched.results) = 2

\* C3: when an exception escapes run_matching, run_matching_task leaves the
\* session 'failed' with current_step "Error: " + the first 100 characters of
\* the message at most, match_progress at the last reported value and no
\* match_results; 'completed' is never written after the exception.
C3_FailedRun ==
    /\ run.raised => Get(store.doc, "match_status", "unknown") # "completed"
    /\ (run.raised /\ run.pc = "done") =>
         /\ store.doc.match_status = "failed"
         /\ store.doc.current_step.label = "Error: "
         /\ Len(store.doc.current_step.detail) <= 100
         /\ Len(store.doc.current_step.detail) = Min(Len(run.exc), 100)
         /\ \A i \in 1..Len(store.doc.current_step.detail) :
                store.doc.current_step.detail[i] = run.exc[i]
         /\ store.doc.match_progress = ClaimedProgress[run.stage + 1]
         /\ "match_results" \notin DOMAIN store.doc

\* C3 witness: the ranking stage raised a message longer than 100 characters
\* and the handler has written the failure.
C3_Witness ==
    /\ run.raised /\ run.pc = "done" /\ run.stage = 5
    /\ Len(run.exc) > 100
    /\ store.doc.match_status = "failed"

HasBracketedArray(text) ==
    \E i, j \in 1..Len(text) : i < j /\ text[i] = "[" /\ text[j] = "]"

OracleGaveNoArray ==
    /\ rankOut.called
    /\ professors # <<>>
    /\ ~response.fails
    /\ ~HasBracketedArray(response.text)

\* C4: when the ranking oracle's text holds no bracketed array,
\* generate_matches returns [] and the run ends 'completed' with progress 100
\* and match_results = [], not 'failed'.
C4_NoArrayCompletes ==
    OracleGaveNoArray =>
      /\ rankOut.exc = NoExc /\ rankOut.value = <<>>
      /\ ~run.raised
      /\ run.pc = "done" =>
           /\ store.doc.match_status = "completed"
           /\ store.doc.match_progress = 100
           /\ store.doc.match_results = <<>>

\* C4 witness: a finished run whose oracle text had brackets in the wrong
\* order only.
C4_Witness ==
    /\ OracleGaveNoArray
    /\ response.text = <<"]", "e", "[">>
    /\ run.pc = "done"
    /\ store.doc.match_status = "completed"

(***************************************************************************)
(* Properties of generate_matches (checked under SpecRank)                 *)
(***************************************************************************)
\* What the claims say about the oracle's entries, stated from the response
\* itself: the array the text carries, the entry's professor and its score.
OracleArray ==
    LET json_match == RegexSearchArray(response.text)
    IN  IF response.fails \/ ~json_match.found THEN <<>>
        ELSE JsonLoads(json_match.sub, response.payload).value

NamesInputProfessor(m) ==
    /\ m.obj
    /\ m.professor_id.t = "str"
    /\ \E i \in 1..Len(professors) : professors[i].id = m.professor_id.v

ScoreOfEntry(m) == IF m.match_score.t = "missing" THEN 0 ELSE m.match_score.v

ResultIds(results) == [i \in 1..Len(results) |-> results[i].professor.id]

ReturnedSome == rankOut.called /\ rankOut.exc = NoExc /\ rankOut.value # <<>>

C8_AsClaimed ==
    rankOut.called =>
      /\ Len(rankOut.value) <= MaxResults
      /\ Len(rankOut.value)
           <= Len(SelectSeq(Take(OracleArray, MaxResults), NamesInputProfessor))
      /\ \A i \in 1..Len(rankOut.value) :
           LET r == rankOut.value[i]
           IN  /\ \E k \in 1..Len(professors) : professors[k] = r.professor
               /\ Range(r.relevant_publications) \subseteq Range(r.professor.publications)
               /\ \E k \in 1..Min(Len(OracleArray), MaxResults) :
                    LET m == OracleArray[k]
                        named == m.relevant_publication_titles
                    IN  /\ NamesInputProfessor(m)
                        /\ m.professor_id.v = r.professor.id
                        /\ r.relevant_publications =
                             SelectSeq(r.professor.publications,
                                LAMBDA t : \E x \in
                                    (IF named.t = "list" THEN Range(named.v)
                                     ELSE IF named.t = "str" THEN {named.v}
                                     ELSE {}) : t = x)

\* C9 (as claimed): for any oracle response, at most as many results as
\* input profiles, each referencing an input profile.
C9_AsClaimed ==
    rankOut.called =>
      /\ Len(rankOut.value) <= Len(professors)
      /\ \A i \in 1..Len(rankOut.value) :
           \E k \in 1..Len(professors) : professors[k] = rankOut.value[i].professor

\* C10 (as claimed): for every oracle response text generate_matches returns
\* a list and raises no exception.
C10_AsClaimed ==
    (rankOut.called /\ ~response.fails) => rankOut.exc = NoExc

(***************************************************************************)
(* Properties of filter_faculty_by_relevance (SpecFilter)                  *)
(***************************************************************************)
\* C11: for a candidate list of at most 30 entries the filter returns the
\* input list unchanged (same elements, same order) and does not call the
\* oracle.
C11_SmallListUntouched ==
    (filterOut.called /\ Len(faculty_data) <= 30) =>
        /\ filterOut.exc = NoExc
        /\ filterOut.value = faculty_data
        /\ ~filterOut.asked

C11_Witness ==
    /\ filterOut.called
    /\ Len(faculty_data) = 30
    /\ filterOut.value = faculty_data
    /\ ~filterOut.asked

\* The array the oracle's text carries, when it carries one that parses.
IndexArray ==
    LET m == RegexSearchArray(response.text)
    IN  IF m.found THEN JsonLoads(m.sub, response.payload) ELSE JsonError

\* The in-range integer indices of the array, in the order returned (an
\* integer as Python's isinstance(i, int) counts it: true and false are the
\* integers 1 and 0).
ValidIndices ==
    SelectSeq(IndexArray.value,
              LAMBDA e : /\ e.kind \in {"int", "bool"}
                         /\ e.v \in 0..(Len(faculty_data) - 1))

\* C12: for a list of more than 30 candidates, when the oracle's response
\* has no bracketed array, cannot be parsed or yields no in-range integer
\* index, the filter returns exactly the first 30 candidates in their
\* original order; otherwise it returns the candidates at the valid returned
\* indices, each an element of the input.
C12_FallbackOrSelection ==
    (filterOut.called /\ Len(faculty_data) > 30 /\ ~response.fails) =>
        /\ filterOut.exc = NoExc
        /\ IF ~HasBracketedArray(response.text) \/ ~IndexArray.ok
              \/ ValidIndices = <<>>
           THEN filterOut.value = SubSeq(faculty_data, 1, 30)
           ELSE /\ Len(filterOut.value) = Len(ValidIndices)
                /\ \A k \in 1..Len(ValidIndices) :
                     /\ filterOut.value[k] = faculty_data[ValidIndices[k].v + 1]
                     /\ \E j \in 1..Len(faculty_data) :
                          filterOut.value[k] = faculty_data[j]

\* A list of 31 or more candidates, an unparsable array: the first 30 come back.
C12_Witness ==
    /\ filterOut.called
    /\ Len(faculty_data) > 30
    /\ HasBracketedArray(response.text)
    /\ ~IndexArray.ok
    /\ filterOut.value = SubSeq(faculty_data, 1, 30)

(***************************************************************************)
(* Properties of the scholar choice (SpecScholar)                          *)
(***************************************************************************)
\* Candidate i has an affiliation that contains a domain keyword, compared
\* without regard to case.
HasDomainAffiliation(i) ==
    /\ candidates[i].affiliations.t = "list"
    /\ \E a \in 1..Len(candidates[i].affiliations.v) :
         \E k \in 1..Len(domain_keywords) :
            StrContains(Lower(candidates[i].affiliations.v[a]),
                        Lower(domain_keywords[k]))

\* C13: when the scholarly search returned at least one candidate a scholar
\* is selected: the first candidate in search order with an affiliation
\* containing a domain keyword (case-insensitive substring), or the first
\* search result when none matches; the no-scholar branch is taken only when
\* the search returned nothing.
C13_ScholarChosen ==
    scholarOut.called =>
        LET matching == {i \in 1..Len(candidates) : HasDomainAffiliation(i)}
        IN  /\ (scholarOut.branch = "profile_page") <=> (candidates = <<>>)
            /\ candidates # <<>> =>
                 /\ scholarOut.branch = "publications"
                 /\ IF matching = {}
                    THEN scholarOut.scholar = candidates[1]
                    ELSE \E i \in matching :
                            /\ \A j \in matching : i <= j
                            /\ scholarOut.scholar = candidates[i]

\* Three candidates, only the last one affiliated through a mixed-case string.
C13_Witness ==
    /\ scholarOut.called
    /\ Len(candidates) = 3
    /\ ~HasDomainAffiliation(1) /\ ~HasDomainAffiliation(2)
    /\ HasDomainAffiliation(3)
    /\ scholarOut.scholar = candidates[3]

(***************************************************************************)
(* Properties of the professor cache (SpecCache)                           *)
(***************************************************************************)
\* C14 (as claimed): get_cached_professor returns a record for a key exactly
\* when the table holds a record of that key whose age, now minus
\* updated_at, is strictly less than 7 days; a record of age 7 days or more
\* counts as absent.
C14_AsClaimed ==
    [][lookup' # lookup =>
        /\ lookup'.found <=>
             \E r \in cache : r.key = lookup'.key /\ now - r.updated_at < 7
        /\ lookup'.found =>
             /\ lookup'.row \in cache
             /\ lookup'.row.key = lookup'.key
             /\ now - lookup'.row.updated_at < 7]_vars

\* C15 (as claimed): after any interleaving of cache_professor calls for one
\* key the table holds exactly one record of the key, carrying the data of
\* the write that committed last, and get_cached_professor and
\* cache_professor calls for the key succeed.
C15_AsClaimed ==
    /\ \A key \in CacheKeys :
         committed[key] # 0 =>
            /\ Cardinality(RowsOfKey(cache, key)) = 1
            /\ \A r \in RowsOfKey(cache, key) : r.data = committed[key]
    /\ lookup.exc = NoExc
    /\ \A w \in Writers : writer[w].exc = NoExc

(***************************************************************************)
(* Properties of the tool gateway (SpecTools)                              *)
(***************************************************************************)
\* C16 (as claimed): for each of the ten operations the pipeline invokes on
\* external tools, a transport or tool failure gives the caller an empty
\* object, an empty array or an empty value, and never an exception.
C16_AsClaimed ==
    (toolOut.called /\ toolCall.outcome \in {"no_session", "raises"}) =>
        /\ toolOut.exc = NoExc
        /\ toolOut.value \in {"empty_object", "empty_array", "empty_string", "null"}

(***************************************************************************)
(* Properties of discover_faculty_url (SpecDiscover)                       *)
(***************************************************************************)
\* The university as Discovery is to treat it: the input itself when it
\* starts with "http://" or "https://", else "https://" followed by the input.
Prefixed ==
    IF discIn.university # <<>> /\ discIn.university[1] \in {"http://", "https://"}
    THEN discIn.university
    ELSE <<"https://">> \o discIn.university

\* C17: a university input that does not start with "http://" or "https://"
\* is processed as "https://" followed by the input: the directory-keyword
\* test, the bare domain of the web-search query and the URL returned as
\* fallback are all computed from the prefixed URL; an input with a scheme is
\* used unchanged.
C17_SchemePrefixed ==
    (discOut.called /\ discOut.exc = NoExc) =>
        LET parsed == UrlParse(Prefixed)
        IN  /\ discOut.searched <=> ~KeywordInPath(parsed.path)
            /\ discOut.searched =>
                 discOut.query.domain = SelectSeq(parsed.netloc, LAMBDA t : t # "www.")
            /\ (~discOut.searched \/ discIn.urls = <<>>) =>
                 discOut.value = <<Prefixed>>
            /\ (discOut.searched /\ discIn.urls # <<>>) =>
                 discOut.value = discIn.urls

\* A bare host with a path: the search uses the host, the fallback the
\* prefixed URL.
C17_Witness ==
    /\ discOut.called
    /\ discIn.university = <<"www.", "mit.edu", "/">>
    /\ discIn.urls = <<>>
    /\ discOut.searched
    /\ discOut.query.domain = <<"mit.edu">>
    /\ discOut.value = <<<<"https://", "www.", "mit.edu", "/">>>>

(***************************************************************************)
(* Properties of fetch_faculty (SpecFetch)                                 *)
(***************************************************************************)
FetchReturned == fetch.pc = "done" /\ fetch.exc = NoExc

\* the positions of all_faculty that hold the first entry of their name
FirstOccurrences(all_faculty) ==
    {k \in 1..Len(all_faculty) :
        /\ all_faculty[k].dict
        /\ all_faculty[k].name.t = "str"
        /\ all_faculty[k].name.v # ""
        /\ \A h \in 1..(k - 1) : all_faculty[h].name # all_faculty[k].name}

\* C18: the list fetch_faculty returns has no two entries of the same name
\* (compared exactly, case-sensitively) and no entry whose name is empty or
\* missing; it is the merged results restricted to the first entry of each
\* name, in order; deduplicating it again gives the same list.
C18_UniqueByName ==
    FetchReturned =>
        LET unique_faculty == fetch.value
            firsts == FirstOccurrences(fetch.all_faculty)
        IN  /\ \A i \in 1..Len(unique_faculty) :
                 /\ unique_faculty[i].dict
                 /\ unique_faculty[i].name.t = "str"
                 /\ unique_faculty[i].name.v # ""
            /\ \A i, j \in 1..Len(unique_faculty) :
                 i # j => unique_faculty[i].name.v # unique_faculty[j].name.v
            /\ Len(unique_faculty) = Cardinality(firsts)
            /\ \A k \in firsts :
                 unique_faculty[Cardinality({h \in firsts : h <= k})]
                    = fetch.all_faculty[k]
            /\ DedupByName(unique_faculty, {}) = [exc |-> NoExc, value |-> unique_faculty]

\* a merge that held the same name twice, and the names "ann" and "Ann"
C18_Witness ==
    /\ FetchReturned
    /\ \E h, k \in 1..Len(fetch.all_faculty) :
         h < k /\ fetch.all_faculty[h].name = fetch.all_faculty[k].name
    /\ \E i, j \in 1..Len(fetch.value) :
         fetch.value[i].name.v = "ann" /\ fetch.value[j].name.v = "Ann"
    /\ Len(fetch.value) < Len(fetch.all_faculty)

PairsBuilt == fetch.pc \in {"search", "done"} /\ fetch.search_pairs # <<>>

PairsOf(interest) ==
    {j \in 1..Len(fetch.search_pairs) : fetch.search_pairs[j].interest = interest}

\* C19 as stated: a branch whose web search fails contributes no URL to the
\* faculty-search fan-out.
C19_AsClaimed ==
    fetch.pc \in {"search", "done"} =>
        \A i \in 1..Len(fetch.branches) :
            fetch.branches[i].failed => PairsOf(fetchIn.research_interests[i]) = {}

\* C19 (amended): a branch that raises contributes no URL; a branch whose web
\* search fails contributes at most the scheme-prefixed university URL; every
\* URL of a branch that did not raise is in the fan-out, under the interest of
\* the first branch that returned it; the stage never fails with the exception
\* of a discovery branch.
C19_FailedBranchFallsBack ==
    /\ fetch.pc \in {"search", "done"} /\ fetch.exc = NoExc =>
         \A i \in 1..Len(fetch.branches) :
            LET branch == fetch.branches[i]
                interest == fetchIn.research_interests[i]
            IN  /\ branch.exc # NoExc => PairsOf(interest) = {}
                /\ branch.failed =>
                     \A j \in PairsOf(interest) :
                        fetch.search_pairs[j].url = EnsureScheme(fetchIn.university)
                /\ branch.exc = NoExc =>
                     \A k \in 1..Len(branch.urls) :
                        \E j \in 1..Len(fetch.search_pairs) :
                           /\ fetch.search_pairs[j].url = branch.urls[k]
                           /\ \E h \in 1..i :
                                /\ fetch.search_pairs[j].interest
                                      = fetchIn.research_interests[h]
                                /\ fetch.branches[h].exc = NoExc
    /\ fetch.pc = "done" /\ fetch.exc # NoExc =>
         /\ fetch.exc = "TypeError"
         /\ \E k \in 1..Len(fetch.all_faculty) : fetch.all_faculty[k].name.t = "list"

\* the first branch's web search failed, the second found the directory, and
\* the stage returned with both URLs searched
C19_Witness ==
    /\ FetchReturned
    /\ Len(fetch.branches) >= 2
    /\ fetch.branches[1].failed
    /\ ~fetch.branches[2].failed
    /\ Len(fetch.search_pairs) = 2
    /\ fetch.search_pairs[1] = [url |-> EnsureScheme(fetchIn.university),
                                interest |-> fetchIn.research_interests[1]]
    /\ fetch.search_pairs[2] = [url |-> DirectoryUrl,
                                interest |-> fetchIn.research_interests[2]]

(***************************************************************************)
(* Properties of enrich_matches_with_google_scholar (SpecPost)             *)
(***************************************************************************)
SameButCitationFields(before, after) ==
    after = [before EXCEPT !.google_scholar_url = after.google_scholar_url,
                           !.citation_metrics = after.citation_metrics]

\* C20: enrich_matches_with_google_scholar never raises, and no step of it
\* changes the match list (its entries, their order, their match_score,
\* reasons, publications, keywords) or any field of a professor other than
\* google_scholar_url and citation_metrics, whatever the lookups return or
\* raise.
C20_OnlyCitationFields ==
    [][/\ matched' = matched
       /\ DOMAIN profObj' = DOMAIN profObj
       /\ \A ref \in DOMAIN profObj : SameButCitationFields(profObj[ref], profObj'[ref])
       /\ postOut'.exc = NoExc
       /\ \A i \in 1..Len(postTask') : postTask'[i].exc = NoExc]_vars

\* the stage has returned; one match's scrape raised, another match got a URL
\* found and its metrics replaced
C20_Witness ==
    /\ postOut.done
    /\ Len(matched) >= 2
    /\ \E i, j \in 1..Len(matched) :
         /\ postTask[i].scrape = "raises"
         /\ postTask[j].find = "url" /\ postTask[j].scrape = "metrics"
         /\ profObj[matched[j].professor].google_scholar_url = "gs_found"
         /\ profObj[matched[j].professor].citation_metrics.h_index = 7

(***************************************************************************)
(* Properties of the session store (SpecStore)                             *)
(***************************************************************************)
RoundTrip(data) == json_loads(json_dumps(data))

\* the step in which a call of op returns without an exception
Returns(c, op) ==
    /\ storeCall[c].pc = "op" /\ storeCall[c].op = op
    /\ storeCall'[c].pc = "done" /\ storeCall'[c].exc = NoExc

\* what get_session returns and what delete_session answers when the session
\* is `session`: the data of a set_session, or Absent
AnswersFor(c, session) ==
    /\ Returns(c, "get_session") =>
         /\ storeCall'[c].result =
               IF session.exists THEN SomeDict(RoundTrip(session.data)) ELSE PyNone
         /\ ~session.exists => storeCall'[c].code = 404
    /\ Returns(c, "delete_session") => storeCall'[c].deleted = session.exists

\* C21 as stated: get_session returns the data of the last set_session not
\* followed by a delete, and None otherwise; delete_session returns True
\* exactly when that data exists.
C21_AsClaimed ==
    [][\A c \in Callers : AnswersFor(c, storeLog.expected)]_vars

\* C21 (amended): get_session returns the data of the last set_session that
\* was followed neither by a delete nor by the expiry of the key at the Redis
\* server (equal after the JSON round trip), and None otherwise;
\* delete_session returns True exactly when that data exists; a get of a
\* session without such data is answered 404.
C21_LastSetUnlessExpired ==
    [][\A c \in Callers :
          AnswersFor(c, IF storeLog.expired THEN Absent ELSE storeLog.expected)]_vars

\* a get returned the round trip of a dict with an int key: the key is a str
C21_Witness ==
    \E c \in Callers :
       /\ storeCall[c].op = "get_session" /\ storeCall[c].pc = "done"
       /\ storeLog.expected = [exists |-> TRUE, data |-> DataIntKey]
       /\ storeCall[c].result = SomeDict(<< <<JStr("1"), JStr("created")>> >>)
       /\ storeCall[c].code = 200

\* C22: a failed ping makes get_redis return None with use_memory_store set
\* and redis_client None; once use_memory_store is set no call attempts a
\* connection, every get_redis returns None and no session operation touches
\* Redis; an existing client is reused; use_memory_store implies redis_client
\* is None.
C22_FallbackIsSticky ==
    [][/\ use_memory_store' => redis_client' = NoClient
       /\ use_memory_store => use_memory_store'
       /\ \A c \in Callers :
            /\ storeCall[c].pc = "ping" /\ storeCall'[c].pc = "op" /\ use_memory_store'
                 => storeCall'[c].client = NoClient /\ redis_client' = NoClient
            /\ use_memory_store /\ storeCall'[c] # storeCall[c] =>
                 /\ storeLog'.attempts = storeLog.attempts
                 /\ redisDb' = redisDb
                 /\ storeCall'[c].client = NoClient
            /\ redis_client # NoClient /\ storeCall[c].pc = "get_redis"
                  /\ storeCall'[c].pc = "op" =>
                 /\ storeCall'[c].client = redis_client
                 /\ redis_client' = redis_client
                 /\ storeLog'.attempts = storeLog.attempts]_vars

\* after the only connection attempt failed, a session was set in memory and
\* read back
C22_Witness ==
    /\ use_memory_store /\ storeLog.attempts = 1
    /\ memory_store.exists /\ ~redisDb.exists
    /\ \E c \in Callers :
         /\ storeCall[c].op = "get_session" /\ storeCall[c].pc = "done"
         /\ ~storeCall[c].result.none

(***************************************************************************)
(* Properties of upload_file (SpecUpload)                                  *)
(***************************************************************************)
\* C23: after any sequence of successful uploads made one after the other,
\* the session's file_ids holds exactly the ids those uploads returned, each
\* once, in upload order.
C23_FileIdsInUploadOrder ==
    /\ uploaded # <<>> =>
         store.exists /\ Get(store.doc, "file_ids", <<>>) = uploaded
    /\ \A i, j \in 1..Len(uploaded) : i # j => uploaded[i] # uploaded[j]

\* two uploads succeeded, one after the other
C23_Witness ==
    /\ Len(uploaded) = 2
    /\ Len(blobs) = 2
    /\ store.exists /\ Len(Get(store.doc, "file_ids", <<>>)) = 2

Rejected(file) ==
    \/ file.filename = <<>>
    \/ LowerExt(Suffix(file.filename)) \notin {".pdf", ".docx", ".txt"}
    \/ file.size > MAX_SIZE

\* C24: an upload to a session that does not exist is answered 404; an upload
\* with a missing filename, an extension that is not .pdf, .docx or .txt, or
\* a content above the size limit is answered 400; no step of such a request
\* stores a file or changes the session.
C24_RejectedChangesNothing ==
    [][\A u \in Uploaders :
          upl'[u] # upl[u] =>
             /\ upl'[u].pc = "done" /\ ~upl'[u].session.exists => upl'[u].code = 404
             /\ upl'[u].pc = "done" /\ ~Falsy(upl'[u].session)
                   /\ Rejected(upl'[u].file) => upl'[u].code = 400
             /\ upl'[u].pc = "save" => ~Rejected(upl'[u].file)
             /\ upl'[u].code \in {400, 404} =>
                   /\ store' = store /\ blobs' = blobs /\ uploaded' = uploaded
                   /\ upl[u].pc \in {"idle", "done", "read"}
                   /\ upl'[u].file_id = 0]_vars

\* after a successful upload, an executable and an oversized PDF were refused
\* and the session still lists the one file
C24_Witness ==
    /\ Len(uploaded) = 1 /\ Len(blobs) = 1
    /\ store.exists /\ Get(store.doc, "file_ids", <<>>) = uploaded
    /\ upl[1].pc = "done" /\ upl[1].code = 400
    /\ upl[1].file = [filename |-> <<"script", ".exe">>, size |-> 1]
    /\ upl[2].pc = "done" /\ upl[2].code = 400
    /\ upl[2].file = [filename |-> <<"resume", ".pdf">>, size |-> MAX_SIZE + 1]

(***************************************************************************)
(* Properties of enrich_single_professor in detail (SpecSingle)            *)
(***************************************************************************)
FreshOfKey(rows, key, t) == {r \in RowsOfKey(rows, key) : IsFresh(r, t)}

CacheFailures == {"DatabaseError", "MultipleResultsFound"}

CallsOf(i) == {c[2] : c \in {d \in calls : d[1] = i}}

\* the step in which task i gets the answer of its cache lookup
LookupAnswered(i) ==
    /\ i \in DOMAIN task /\ task[i].pc = "cache_get" /\ task'[i].pc # "cache_get"
    /\ single'[i].exc # "DatabaseError"

\* C25 (as claimed): when the cache holds a fresh record for the candidate's
\* (name, university), enrich_single_professor returns that record, makes no
\* scholar, publication, page or oracle call and no cache write, and the
\* cache is unchanged.
C25_AsClaimed ==
    [][\A i \in SingleTasks :
         LookupAnswered(i) /\ FreshOfKey(cache, KeyOf(i), now) # {}
         => /\ \E r \in FreshOfKey(cache, KeyOf(i), now) :
                  task'[i].result = ReturnedProfile(CacheToProfile(r))
            /\ task'[i].pc = "done"
            /\ cache' = cache
            /\ calls' \ calls \subseteq {<<i, "get_cached_professor">>}]_vars

\* what holds of the code: with exactly one fresh record of the key the
\* lookup returns it and the task ends there, with no other call
C25_SingleFreshRecordReturned ==
    [][\A i \in SingleTasks :
         LookupAnswered(i) /\ Cardinality(FreshOfKey(cache, KeyOf(i), now)) = 1
         => /\ \E r \in FreshOfKey(cache, KeyOf(i), now) :
                  task'[i].result = ReturnedProfile(CacheToProfile(r))
            /\ task'[i].pc = "done"
            /\ cache' = cache
            /\ CallsOf(i)' = {"get_cached_professor"}]_vars

C25_TwoFreshRecords ==
    \E i \in DOMAIN task :
        /\ task[i].pc = "done" /\ single[i].exc = "MultipleResultsFound"
        /\ CallsOf(i) = {"get_cached_professor"}

IsOutput(i) == task[i].pc = "done" /\ task[i].result.kind = "profile"

\* C26 (as claimed): on a cache miss every profile returned has been
\* upserted into the cache before the return; hence when enrich_professors
\* returns, the cache holds a fresh record for the key of every profile in
\* its output.
C26_AsClaimed ==
    [][~enrichOut.done /\ enrichOut'.done
       => \A i \in DOMAIN task :
            IsOutput(i) => FreshOfKey(cache', KeyOf(i), now') # {}]_vars

\* C26 (amended): a profile built on a miss is returned only after
\* cache_professor committed a record under its key; at the moment a
\* profile is returned (from the cache or newly built) the cache holds a
\* fresh record for its key, and a record for that key stays in the cache.
C26_RecordFreshWhenObtained ==
    [][\A i \in SingleTasks :
         /\ i \in DOMAIN task /\ ~IsOutput(i) /\ IsOutput(i)'
            => /\ FreshOfKey(cache', KeyOf(i), now') # {}
               /\ ~single'[i].hit
                  => /\ "cache_professor" \in CallsOf(i)'
                     /\ \E r \in RowsOfKey(cache', KeyOf(i)) : r.data = i
         /\ i \in DOMAIN task /\ IsOutput(i)
            => RowsOfKey(cache', KeyOf(i)) # {}]_vars

C26_Witness ==
    /\ enrichOut.done /\ Len(enrichOut.value) = 2
    /\ \E i, j \in DOMAIN task :
         /\ IsOutput(i) /\ single[i].hit
         /\ IsOutput(j) /\ ~single[j].hit
         /\ FreshOfKey(cache, KeyOf(i), now) = {}

IsMinimal(content) ==
    /\ content.publications = 0
    /\ content.scholar_id = "none"
    /\ ~content.has_metrics

\* C27 (as claimed): when the scholarly search returns no candidate, the
\* candidate always yields a minimal profile (no publications, no scholar
\* id, no citation metrics), whether it has no profile URL or the page fetch
\* succeeds, fails or returns a value of an unexpected shape; the candidate
\* is not dropped.  (A failure of the cache itself is left aside.)
C27_AsClaimed ==
    \A i \in DOMAIN task :
        /\ task[i].pc = "done"
        /\ single[i].scholar = "none"
        /\ single[i].exc \notin CacheFailures
        => /\ task[i].result = ReturnedProfile(BuiltProfile(i))
           /\ IsMinimal(single[i].built)

\* what holds of the code: the minimal profile is returned when the page
\* answer is a dict of well-typed fields or the call raised
C27_MinimalWhenPageIsDict ==
    \A i \in DOMAIN task :
        /\ task[i].pc = "done"
        /\ single[i].scholar = "none"
        /\ single[i].exc \notin CacheFailures
        /\ single[i].page \in {"unset", "dict", "areas_str", "empty", "raises"}
        => /\ task[i].result = ReturnedProfile(BuiltProfile(i))
           /\ IsMinimal(single[i].built)

C27_DroppedOnUnexpectedShape ==
    /\ enrichOut.done
    /\ \E i \in DOMAIN task :
         /\ single[i].scholar = "none" /\ single[i].page = "list"
         /\ single[i].exc = "AttributeError"
         /\ task[i].result = RaisedException
         /\ \A k \in 1..Len(enrichOut.value) : enrichOut.value[k] # BuiltProfile(i)


(***************************************************************************)
(* Properties of the domain keywords (SpecKeywords)                        *)
(***************************************************************************)
\* the host of a university given as a URL or as a bare hostname
HostOf(university) == UrlParse(EnsureScheme(university)).netloc

\* the host's dot-separated tokens, lowercased, outside the stop set and
\* longer than 2 characters
HostKeywords(university) == KeywordsOfParts(SplitDots(HostOf(university)))

WellFormed(university) == ~UrlParse(EnsureScheme(university)).raises

\* C28 (as claimed): the domain keywords are exactly the host's
\* dot-separated tokens, lowercased, that are not in the stop set and are
\* longer than 2 characters; 'mit.edu' and 'https://mit.edu' give the same
\* keywords.
C28_AsClaimed ==
    kwOut.called /\ WellFormed(kwIn) => kwOut.value = HostKeywords(kwIn)

\* what holds of the code: for a university given with a scheme the
\* keywords are as claimed
C28_WithSchemeAsClaimed ==
    kwOut.called /\ WellFormed(kwIn) /\ HasScheme(kwIn)
    => kwOut.value = HostKeywords(kwIn)

C28_BareHostnameNoKeywords ==
    /\ kwOut.called
    /\ kwIn = <<"mit", ".", "edu">>
    /\ kwOut.value = <<>>
    /\ DomainKeywords(<<"https://", "mit", ".", "edu">>) = <<"mit">>


(***************************************************************************)
(* Properties of enrich_matches_with_google_scholar: citation metrics      *)
(***************************************************************************)
MetricsOf(ref) == profObj[ref].citation_metrics

\* task i took a step
Stepped(i) == postTask'[i] # postTask[i]

Discoverers(url) ==
    {i \in 1..Len(fetch.branches) :
        /\ fetch.branches[i].exc = NoExc
        /\ \E k \in 1..Len(fetch.branches[i].urls) : fetch.branches[i].urls[k] = url}

DiscoveredUrls ==
    UNION {Range(fetch.branches[i].urls) :
             i \in {h \in 1..Len(fetch.branches) : fetch.branches[h].exc = NoExc}}

\* C30: fetch_faculty starts a discovery branch only for the first 3
\* interests, and issues exactly one search_faculty call per distinct
\* discovered URL, paired with the first interest (in interest order) whose
\* discovery returned that URL.
C30_OneSearchPerUrl ==
    /\ Len(fetch.branches) = Min(DiscoveryLimit, Len(fetchIn.research_interests))
    /\ fetch.pc \in {"search", "done"} /\ fetch.exc = NoExc
       => /\ {fetch.search_pairs[j].url : j \in 1..Len(fetch.search_pairs)}
               = DiscoveredUrls
          /\ Len(fetch.search_pairs) = Cardinality(DiscoveredUrls)
          /\ Len(fetch.results) = Len(fetch.search_pairs)
          /\ \A j \in 1..Len(fetch.search_pairs) :
               LET pair == fetch.search_pairs[j]
                   first == CHOOSE i \in Discoverers(pair.url) :
                               \A h \in Discoverers(pair.url) : i <= h
               IN  pair.interest = fetchIn.research_interests[first]
    /\ FetchReturned
       => \A j \in 1..Len(fetch.results) : fetch.results[j].state = "done"

C30_Witness ==
    /\ FetchReturned
    /\ Len(fetchIn.research_interests) > DiscoveryLimit
    /\ Len(fetch.search_pairs) = 2
    /\ Cardinality(Discoverers(DirectoryUrl)) = 2
    /\ 1 \notin Discoverers(DirectoryUrl)
    /\ Cardinality(Discoverers(OtherUrl)) = 3


(***************************************************************************)
(* Properties of the fan-outs (SpecFanOut)                                 *)
(***************************************************************************)
\* what the fixed answers determine, without reference to any completion
ExpectedPairs == UniqueByUrl(AllPairs(fanIn.web, FanInterests, 1), {})

ExpectedFaculty == DedupByName(Extended(SearchResults(ExpectedPairs), 1), {}).value

ExpectedProfessors == ProfilesOf(EnrichResults(ExpectedFaculty))

\* C31: for fixed tool responses, fetch_faculty returns the same faculty list
\* (same entries, same order, same entry kept for each duplicated name) and
\* enrich_professors returns the profiles in the order of its candidates,
\* under every order in which the concurrent tasks complete.
C31_OrderIndependent ==
    fan.stage = "done"
    => /\ fan.search_pairs = ExpectedPairs
       /\ fan.unique_faculty = ExpectedFaculty
       /\ fan.professors = ExpectedProfessors
       /\ \A k, l \in 1..Len(fan.professors) :
            k < l => fan.professors[k].id.n < fan.professors[l].id.n
       /\ \A k \in 1..Len(fan.professors) :
            fan.professors[k].name = fan.unique_faculty[fan.professors[k].id.n].name.v

IsTaskOrder(finished) == \A k \in 1..Len(finished) : finished[k] = k

C31_Witness ==
    /\ fan.stage = "done"
    /\ \A s \in 1..3 : ~IsTaskOrder(fan.order[s])
    /\ Len(fan.search_pairs) = 2
    /\ Len(fan.unique_faculty) = 3
    /\ Len(fan.professors) = 2


(***************************************************************************)
(* Properties of the admission of enrich_professors: liveness              *)
(***************************************************************************)
\* C32: the slot a candidate took is released when its enrichment returns
\* and when it raises: the free and the held slots always add up to 20, and
\* with more than 20 candidates every candidate is eventually admitted and
\* the stage returns with every slot free.
C32_EveryCandidateAdmitted ==
    /\ [](semValue + Holding(crowd) = SemaphoreLimit)
    /\ <>[](/\ enrichOut.done
            /\ crowd.finished = NumCandidates
            /\ crowd.waiting = 0
            /\ semValue = SemaphoreLimit)

C32_Witness ==
    /\ enrichOut.done
    /\ crowd.finished = NumCandidates
    /\ NumCandidates > SemaphoreLimit
    /\ semValue = SemaphoreLimit


(***************************************************************************)
(* Properties of filter_faculty_by_relevance: the bound on the fan-out     *)
(***************************************************************************)
NoCandidateTwice(list) ==
    \A i, j \in 1..Len(list) : i # j => list[i] # list[j]

\* C33 (as claimed): for a candidate list of more than 30 entries and any
\* oracle response, filter_faculty_by_relevance returns at most 30
\* candidates and no candidate twice.
C33_AsClaimed ==
    filterOut.called /\ filterOut.exc = NoExc /\ Len(faculty_data) > FilterLimit
    => /\ Len(filterOut.value) <= FilterLimit
       /\ NoCandidateTwice(filterOut.value)

\* what holds of the code: every entry of the result is one of the
\* candidates, and the result is never empty
C33_EntriesAreCandidates ==
    filterOut.called /\ filterOut.exc = NoExc /\ Len(faculty_data) > FilterLimit
    => /\ filterOut.value # <<>>
       /\ \A k \in 1..Len(filterOut.value) :
             \E i \in 1..Len(faculty_data) : filterOut.value[k] = faculty_data[i]

C33_MoreThanThirty ==
    /\ filterOut.called /\ filterOut.exc = NoExc
    /\ response.payload = AllIndices
    /\ Len(filterOut.value) = MaxFaculty
    /\ MaxFaculty > FilterLimit

C33_SameCandidateTwice ==
    /\ filterOut.called /\ filterOut.exc = NoExc
    /\ Len(faculty_data) > FilterLimit
    /\ Len(filterOut.value) = 2
    /\ filterOut.value[1] = filterOut.value[2]


(***************************************************************************)
(* Properties of the concurrent requests on one session (SpecSession)      *)
(***************************************************************************)
ProgressIn(session) == Get(session.doc, "match_progress", 0)

StoredStatus(session) == Get(session.doc, "match_status", "unknown")

StoredFileIds(session) == Get(session.doc, "file_ids", <<>>)

UploadsAndOneRun == sessLog.load.starts = 1 /\ ~sessLog.load.delete

\* C34 (as claimed): when uploads interleave with one pipeline run, the stored
\* match_progress never decreases: no step other than the reset of
\* start_match stores a smaller progress than the one stored before it.
C34_AsClaimed ==
    [][ UploadsAndOneRun /\ store.exists /\ store'.exists /\ starts' = starts
        => ProgressIn(store') >= ProgressIn(store) ]_vars

\* the write of an upload that read the session before a milestone
C34_MilestoneLost ==
    /\ UploadsAndOneRun /\ store.exists
    /\ runs[1].pc = "update_get" /\ runs[1].stage = 3
    /\ ProgressIn(store) < Milestones[2].progress

OnlyStartsAndRuns == sessLog.load.uploads = 0 /\ ~sessLog.load.delete

\* the step in which run r writes 'completed' or 'failed'
WritesOutcome(r) ==
    runs[r].pc \in {"final_set", "except_set"} /\ runs'[r].pc = "done"

\* C35 (as claimed): under any sequence of start_match calls and run steps,
\* status 'completed' comes with progress 100, and after a start_match has
\* reset the session no run started before that reset writes 'completed' or
\* 'failed'.
C35_AsClaimed ==
    /\ [](OnlyStartsAndRuns /\ store.exists /\ StoredStatus(store) = "completed"
          => ProgressIn(store) = 100)
    /\ [][ OnlyStartsAndRuns
           => \A r \in Requests : WritesOutcome(r) => sessLog.reset = r ]_vars

C35_CompletedBelowHundred ==
    /\ OnlyStartsAndRuns /\ store.exists
    /\ StoredStatus(store) = "completed"
    /\ ProgressIn(store) < 100

C35_EarlierRunWroteOutcome ==
    /\ OnlyStartsAndRuns /\ store.exists
    /\ sessLog.reset = 2 /\ runs[1].pc = "done" /\ runs[2].pc = "update_get"
    /\ runs[2].stage = 1
    /\ StoredStatus(store) \in {"completed", "failed"}

\* C36 (as claimed): the results get_match_results returns for a match_id
\* are those computed by the run that the start_match issuing this match_id
\* started.
C36_AsClaimed ==
    served.code = 200 => served.results = ResultsOf(served.match_id)

C36_EarlierResultsServed ==
    served.code = 200 /\ served.match_id = 2 /\ served.results = ResultsOf(1)

\* what holds: an answer 200 is given for the session's current match_id
\* and status 'completed' only
C36_AnswerCodes ==
    \A r \in Requests :
       /\ ResultsAnswer(r).code = 404
             <=> (~store.exists \/ Get(store.doc, "match_id", 0) # r)
       /\ ResultsAnswer(r).code = 400
             <=> (MatchFound(r) /\ StoredStatus(store) # "completed")

\* C37 (as claimed): after any interleaving of two uploads, or of an upload
\* with the progress updates of a run, every file id answered with 200 is
\* in the session's file_ids.
C37_AsClaimed ==
    ~sessLog.load.delete /\ store.exists
    => \A i \in 1..Len(uploaded) : uploaded[i] \in Range(StoredFileIds(store))

C37_LostToOtherUpload ==
    /\ starts[1].pc = "idle" /\ store.exists
    /\ Len(uploaded) = 2
    /\ Len(StoredFileIds(store)) = 1

C37_LostToProgressUpdate ==
    /\ ~sessLog.load.delete /\ store.exists
    /\ Len(uploaded) = 1 /\ upl[2].pc = "idle"
    /\ runs[1].pc = "update_get" /\ runs[1].stage = 2
    /\ StoredFileIds(store) = <<>>
    /\ ProgressIn(store) = Milestones[1].progress

\* C38 (as claimed): once the DELETE has succeeded the session stays
\* absent.
C38_AsClaimed == gone.code = 200 => ~store.exists

C38_WrittenBackByRun ==
    /\ gone.code = 200 /\ store.exists
    /\ \A u \in Uploaders : upl[u].pc = "idle"

C38_WrittenBackByUpload ==
    /\ gone.code = 200 /\ store.exists
    /\ starts[1].pc = "idle" /\ Len(uploaded) = 1


(***************************************************************************)
(* Properties of SpecSingle: the id of a profile and of its cache record   *)
(***************************************************************************)
\* get_professor (app/routes/professor.py): select where id == professor_id
get_professor(rows, professor_id) ==
    LET found == {r \in rows : r.id = professor_id}
    IN  IF found = {} THEN [code |-> 404, key |-> <<>>]
        ELSE [code |-> 200, key |-> (CHOOSE r \in found : TRUE).key]

ProfileId(i) == task[i].result.profile.id.n

\* C39 (as claimed): the id of every profile enrich_single_professor
\* returns is the id of the cache record of its (name, university), so
\* get_professor finds the profile's record under that id.
C39_AsClaimed ==
    \A i \in DOMAIN task :
        IsOutput(i) =>
            /\ \E r \in RowsOfKey(cache, KeyOf(i)) : r.id = ProfileId(i)
            /\ get_professor(cache, ProfileId(i)) = [code |-> 200, key |-> KeyOf(i)]

\* what holds: the ids agree for a profile served from the cache and for
\* one whose record was newly inserted
C39_SameIdUnlessRefreshed ==
    \A i \in DOMAIN task :
        IsOutput(i) /\ (single[i].hit \/ single[i].existing = 0)
        => get_professor(cache, ProfileId(i)) = [code |-> 200, key |-> KeyOf(i)]

C39_RefreshedUnderOldId ==
    \E i \in DOMAIN task :
        /\ IsOutput(i) /\ ~single[i].hit /\ single[i].existing # 0
        /\ get_professor(cache, ProfileId(i)).code = 404
        /\ \E r \in RowsOfKey(cache, KeyOf(i)) :
              r.id = single[i].existing /\ r.data = i


(***************************************************************************)
(* Properties of get_redis under concurrent callers (SpecStoreConcurrent)  *)
(***************************************************************************)
\* the first ping of the client from_url built is still awaited
PingAwaited == \E d \in Callers : storeCall[d].pc = "ping"

\* caller c leaves get_redis with a Redis client in this step
ObtainsClient(c) ==
    /\ storeCall[c].pc \in {"get_redis", "ping"}
    /\ storeCall'[c].pc = "op" /\ storeCall'[c].client # NoClient

\* caller c sends its session command to Redis in this step
SendsToRedis(c) ==
    /\ storeCall[c].pc = "op" /\ storeCall[c].op # "get_redis"
    /\ storeCall[c].client # NoClient
    /\ storeCall'[c].pc = "done"

\* C40 (as claimed): get_redis never returns a client whose ping has not
\* succeeded: while one caller awaits the first ping no other caller obtains
\* the client, and after a failed ping no session operation is sent to
\* Redis.
C40_AsClaimed ==
    [][ \A c \in Callers :
          /\ ObtainsClient(c) /\ storeCall[c].pc = "get_redis" => ~PingAwaited
          /\ SendsToRedis(c) => ~use_memory_store ]_vars

C40_UnverifiedClientObtained ==
    \E c, d \in Callers :
        /\ storeCall[d].pc = "ping"
        /\ storeCall[c].pc = "op" /\ storeCall[c].client # NoClient

C40_SentAfterFailedPing ==
    \E c \in Callers :
        /\ use_memory_store /\ redis_client = NoClient
        /\ storeCall[c].pc = "done" /\ storeCall[c].op = "set_session"
        /\ storeCall[c].client # NoClient /\ storeCall[c].exc = NoExc
        /\ redisDb.exists /\ ~memory_store.exists

\* what holds: the caller that awaited the ping itself gets the client only
\* after the ping succeeded, and None after it failed
C40_PingingCallerVerified ==
    [][ \A c \in Callers :
          storeCall[c].pc = "ping" /\ storeCall'[c].pc = "op"
          => (storeCall'[c].client # NoClient <=> ~use_memory_store') ]_vars


====
